---- MODULE Spec2Model ----
(***************************************************************************)
(* Node-startup taint controller (pkg/startup) and its admission webhook   *)
(* (pkg/webhook), modelled against a version-checked object store.         *)
(*                                                                         *)
(* The store holds Node and Pod objects.  The controller's handlers        *)
(* (handleNode, handlePod) run on the informers' delivery goroutines, one  *)
(* per watched resource, so two invocations can interleave at every store  *)
(* call.  removeStartupTaint is retry.RetryOnConflict(retry.DefaultBackoff)*)
(* around Get / filter / stamp / Update.                                   *)
(***************************************************************************)
EXTENDS Integers, Sequences, FiniteSets, TLC

----------------------------------------------------------------------------
(* Bounds of the model *)

\* writes by other clients (kubelet, node lifecycle controller) in Spec
MaxEnvWrites == 1
\* writes by other clients in SpecContention
MaxContention == 4
\* seconds the wall clock advances
MaxTicks == 1
\* direct removeStartupTaint calls per node
MaxCalls == 2
\* store calls that fail with a non-conflict error
MaxFaults == 1
\* backfillTaint calls besides the one Run makes
MaxSweeps == 2
\* taints on a node given to HasStartupTaint
MaxTaints == 3
\* notifications delivered to the event handlers
MaxNotes == 4

----------------------------------------------------------------------------
(* constants.go *)

TaintKey == "startup.k8s.io/initializing"
TaintValue == "wait"
TaintEffectStr == "NoSchedule"
StartPodLabelKey == "startup.k8s.io/component"
StartPodLabelValue == "init"
StartPodReadyAnnotation == "startup.k8s.io/ready"
NodeStartupCompletedAnnotation == "startup.k8s.io/completedAt"
StartupTaint == [Key |-> TaintKey, Value |-> TaintValue, Effect |-> TaintEffectStr]

\* pkg/webhook
aksModeLabel == "kubernetes.azure.com/mode"

\* retry.DefaultBackoff.Steps: the number of times RetryOnConflict runs fn
DefaultBackoffSteps == 4

\* time.Now().Unix() when the model starts
ClockStart == 9

----------------------------------------------------------------------------
(* Go maps: a missing key reads as "" *)

Lookup(m, k) == IF k \in DOMAIN m THEN m[k] ELSE ""
Store(m, k, v) == [x \in (DOMAIN m) \cup {k} |-> IF x = k THEN v ELSE m[x]]
EmptyMap == [x \in {} |-> ""]

\* strconv.FormatInt(i, 10) for i >= 0
Digits == <<"0", "1", "2", "3", "4", "5", "6", "7", "8", "9">>
RECURSIVE FormatInt(_)
FormatInt(i) ==
  IF i < 10 THEN Digits[i + 1] ELSE FormatInt(i \div 10) \o Digits[(i % 10) + 1]

\* the sequences over S of length n at most
SeqsUpTo(S, n) == UNION {[1..k -> S] : k \in 0..n}

\* all orderings of a finite set, as sequences without repetition
RECURSIVE Orderings(_)
Orderings(S) ==
  IF S = {} THEN {<<>>}
  ELSE UNION {{<<x>> \o s : s \in Orderings(S \ {x})} : x \in S}

----------------------------------------------------------------------------
(* Objects *)

NodeNames == {"n1", "n2"}
PodNames == {"p1"}

\* taints other clients put on a node
NotReadyTaint == [Key |-> "node.kubernetes.io/not-ready", Value |-> "", Effect |-> "NoSchedule"]
WrongValueTaint == [Key |-> TaintKey, Value |-> "done", Effect |-> "NoSchedule"]
WrongEffectTaint == [Key |-> TaintKey, Value |-> TaintValue, Effect |-> "NoExecute"]

Node(name, taints, annotations, labels, rv) ==
  [Name |-> name, Taints |-> taints, Annotations |-> annotations,
   Labels |-> labels, ResourceVersion |-> rv]

Pod(name, ns, labels, annotations, nodeName, containers, conditions) ==
  [Name |-> name, Namespace |-> ns, Labels |-> labels, Annotations |-> annotations,
   NodeName |-> nodeName, ContainerStatuses |-> containers, Conditions |-> conditions]

PodReadyTrue == [Type |-> "Ready", Status |-> "True"]
PodReadyFalse == [Type |-> "Ready", Status |-> "False"]

----------------------------------------------------------------------------
(* controller.go: pure functions *)

IsStartupTaint(t) ==
  t.Key = TaintKey /\ t.Value = TaintValue /\ t.Effect = TaintEffectStr

\* mutant: compares the key only
HasStartupTaint_KeyOnly(node) ==
  \E i \in 1..Len(node.Taints) : node.Taints[i].Key = TaintKey

HasStartupTaint(node) ==
  \E i \in 1..Len(node.Taints) : IsStartupTaint(node.Taints[i])

MarkerCount(node) ==
  Cardinality({i \in 1..Len(node.Taints) : IsStartupTaint(node.Taints[i])})

\* mutant: the loop keeps every taint
newTaints_KeepAll(taints) == taints

\* mutant: the loop stops dropping after the first marker
newTaints_FirstOnly(taints) ==
  IF \E i \in 1..Len(taints) : IsStartupTaint(taints[i])
  THEN LET first == CHOOSE i \in 1..Len(taints) :
                      /\ IsStartupTaint(taints[i])
                      /\ \A j \in 1..(i - 1) : ~IsStartupTaint(taints[j])
       IN SubSeq(taints, 1, first - 1) \o SubSeq(taints, first + 1, Len(taints))
  ELSE taints

\* removeStartupTaint, lines 185-193: the taints kept, in order
RECURSIVE newTaints(_)
newTaints(taints) ==
  IF taints = <<>> THEN <<>>
  ELSE IF IsStartupTaint(Head(taints)) THEN newTaints(Tail(taints))
       ELSE <<Head(taints)>> \o newTaints(Tail(taints))

\* mutant: the early return of line 194 is never taken
changed_Always(taints) == TRUE

\* mutant: the marker is never found
changed_Never(taints) == FALSE

\* mutant: a taint with the marker's key counts, whatever its value
changed_KeyOnly(taints) == \E i \in 1..Len(taints) : taints[i].Key = TaintKey

\* removeStartupTaint, lines 186-190: whether a taint was dropped
changed(taints) == \E i \in 1..Len(taints) : IsStartupTaint(taints[i])

\* lines 125-131 / 158-165
allReady(p) == \A i \in 1..Len(p.ContainerStatuses) : p.ContainerStatuses[i].Ready

\* mutant: the PodReady condition is not looked at
readyCond_Ignored(p) == TRUE

\* lines 135-139 / 166-171
readyCond(p) ==
  \E i \in 1..Len(p.Conditions) :
    p.Conditions[i].Type = "Ready" /\ p.Conditions[i].Status = "True"

\* mutant: the annotation counts only on a pod whose containers are ready
annotatedReady_IfContainersReady(p) ==
  Lookup(p.Annotations, StartPodReadyAnnotation) = "true" /\ allReady(p)

annotatedReady(p) == Lookup(p.Annotations, StartPodReadyAnnotation) = "true"

\* mutant: the first agent pod that is not complete ends the search
RECURSIVE indexedReady_FirstAgent(_)
indexedReady_FirstAgent(objs) ==
  IF objs = <<>> THEN FALSE
  ELSE LET p == Head(objs) IN
       IF Lookup(p.Labels, StartPodLabelKey) # StartPodLabelValue
       THEN indexedReady_FirstAgent(Tail(objs))
       ELSE annotatedReady(p) \/ (allReady(p) /\ readyCond(p))

\* mutant: the pods' node is not compared (line 152 missing)
RECURSIVE listedReady_AnyNode(_, _)
listedReady_AnyNode(items, nodeName) ==
  IF items = <<>> THEN FALSE
  ELSE LET p == Head(items) IN
       IF annotatedReady(p) THEN TRUE
       ELSE IF allReady(p) /\ readyCond(p) THEN TRUE
       ELSE listedReady_AnyNode(Tail(items), nodeName)

\* startupPodReady, indexed path (lines 116-141), over the objects ByIndex returned
RECURSIVE indexedReady(_)
indexedReady(objs) ==
  IF objs = <<>> THEN FALSE
  ELSE LET p == Head(objs) IN
       IF Lookup(p.Labels, StartPodLabelKey) # StartPodLabelValue
       THEN indexedReady(Tail(objs))
       ELSE IF annotatedReady(p) THEN TRUE
       ELSE IF ~allReady(p) THEN indexedReady(Tail(objs))
       ELSE IF readyCond(p) THEN TRUE
       ELSE indexedReady(Tail(objs))

\* startupPodReady, fallback path (lines 151-176), over pods.Items
RECURSIVE listedReady(_, _)
listedReady(items, nodeName) ==
  IF items = <<>> THEN FALSE
  ELSE LET p == Head(items) IN
       IF p.NodeName # nodeName THEN listedReady(Tail(items), nodeName)
       ELSE IF annotatedReady(p) THEN TRUE
       ELSE IF allReady(p) /\ readyCond(p) THEN TRUE
       ELSE listedReady(Tail(items), nodeName)

\* hasWorkloadPods, either loop (lines 238-245 / 254-259)
RECURSIVE workloadIn(_)
workloadIn(objs) ==
  IF objs = <<>> THEN FALSE
  ELSE IF Head(objs).Namespace # "kube-system" /\ Head(objs).Namespace # "kube-public"
       THEN TRUE
       ELSE workloadIn(Tail(objs))

----------------------------------------------------------------------------
(* pkg/webhook: MutateNode, and the store applying its JSON patch *)

\* the AdmissionReview decoded from the body.  Nil: review.Request is nil; Decodes:
\* whether Request.Object.Raw unmarshals into a Node
Review(kind, operation, object) ==
  [Request |-> [Nil |-> FALSE, Kind |-> kind, Operation |-> operation,
                Object |-> object, Decodes |-> TRUE]]

NilReview ==
  [Request |-> [Nil |-> TRUE, Kind |-> "", Operation |-> "",
                Object |-> Node("", <<>>, EmptyMap, EmptyMap, 0), Decodes |-> FALSE]]

NoPatch == <<>>

\* mutant: patches on every operation, not only on CREATE
MutateNode_AnyOperation(review) ==
  IF review.Request.Nil \/ review.Request.Kind # "Node" THEN NoPatch
  ELSE IF ~review.Request.Decodes THEN NoPatch
  ELSE LET node == review.Request.Object IN
       IF HasStartupTaint(node) THEN NoPatch
       ELSE IF Lookup(node.Labels, aksModeLabel) = "system" THEN NoPatch
       ELSE IF Len(node.Taints) = 0
            THEN <<[Op |-> "add", Path |-> "/spec/taints", Value |-> <<StartupTaint>>]>>
            ELSE <<[Op |-> "add", Path |-> "/spec/taints/-", Value |-> <<StartupTaint>>]>>

\* mutant: the mode label is not looked at
MutateNode_SystemPoolToo(review) ==
  IF review.Request.Nil \/ review.Request.Kind # "Node" THEN NoPatch
  ELSE IF review.Request.Operation # "CREATE" THEN NoPatch
  ELSE IF ~review.Request.Decodes THEN NoPatch
  ELSE LET node == review.Request.Object IN
       IF HasStartupTaint(node) THEN NoPatch
       ELSE IF Len(node.Taints) = 0
            THEN <<[Op |-> "add", Path |-> "/spec/taints", Value |-> <<StartupTaint>>]>>
            ELSE <<[Op |-> "add", Path |-> "/spec/taints/-", Value |-> <<StartupTaint>>]>>

\* the patch MutateNode answers with (NoPatch: Allowed, no patch).  A "/-" add
\* carries one taint; it is kept here as a one-element list.
MutateNode(review) ==
  IF review.Request.Nil \/ review.Request.Kind # "Node" THEN NoPatch
  ELSE IF review.Request.Operation # "CREATE" THEN NoPatch
  ELSE IF ~review.Request.Decodes THEN NoPatch
  ELSE LET node == review.Request.Object IN
       IF HasStartupTaint(node) THEN NoPatch
       ELSE IF Lookup(node.Labels, aksModeLabel) = "system" THEN NoPatch
       ELSE IF Len(node.Taints) = 0
            THEN <<[Op |-> "add", Path |-> "/spec/taints", Value |-> <<StartupTaint>>]>>
            ELSE <<[Op |-> "add", Path |-> "/spec/taints/-", Value |-> <<StartupTaint>>]>>

\* the AdmissionResponse written: writeResponse (no patch) or writePatch
MutateNodeResponse(review) ==
  LET ops == MutateNode(review) IN
  [Allowed |-> TRUE, Patch |-> ops,
   PatchType |-> IF ops = NoPatch THEN "nil" ELSE "JSONPatch"]

\* RFC 6902 "add": sets the member at the path, or appends at "/-"
RECURSIVE ApplyPatch(_, _)
ApplyPatch(node, ops) ==
  IF ops = <<>> THEN node
  ELSE LET op == Head(ops)
           next == IF op.Path = "/spec/taints"
                   THEN [node EXCEPT !.Taints = op.Value]
                   ELSE [node EXCEPT !.Taints = @ \o op.Value]
       IN ApplyPatch(next, Tail(ops))

\* what the store persists for a write that reached it
Admitted(operation, object) ==
  ApplyPatch(object, MutateNode(Review("Node", operation, object)))

----------------------------------------------------------------------------
(* State *)

VARIABLES
  nodes,        \* the store's Node objects, by name (its domain: the nodes that exist)
  pods,         \* the store's Pod objects, by name
  indexed,      \* the pod informer's cache, which the "byNode" index is built on
  podIndexer,   \* Controller.podIndexer: "nil" or "set"
  backfillEnv,  \* os.Getenv("STARTUP_BACKFILL")
  clock,        \* time.Now().Unix()
  pc,           \* per delivery goroutine: where its handler stands
  arg,          \* per goroutine: the node object the handler was given
  fetched,      \* per goroutine: n of removeStartupTaint
  steps,        \* per goroutine: backoff.Steps left
  stat,         \* per goroutine: store calls of the invocation under way
  last,         \* per goroutine: how its last invocation ended (kept if recording)
  recording,    \* whether invocations' outcomes are kept in last
  held,         \* the node objects a direct caller of removeStartupTaint holds
  calls,        \* per node: direct removeStartupTaint calls made
  issued,       \* per node: Update calls removeStartupTaint issued
  removals,     \* per node: Update calls of removeStartupTaint the store accepted
  runPc,        \* where Controller.Run stands
  items,        \* backfillTaint: nodes.Items
  bfI,          \* backfillTaint: i
  envWrites,    \* writes other clients made
  faults,       \* store calls that failed with a non-conflict error
  sweeps,       \* backfillTaint calls begun
  input,        \* what a function under evaluation, or the dispatcher, was given
  output,       \* what it answered, or the calls the dispatcher made
  stop          \* whether the stop channel Run was given is closed

vars == <<nodes, pods, indexed, podIndexer, backfillEnv, clock, pc, arg, fetched,
          steps, stat, last, recording, held, calls, issued, removals, runPc,
          items, bfI, envWrites, faults, sweeps, input, output, stop>>

storeVars == <<nodes, pods, indexed>>
\* left alone by every action of the controller and of its environment
fixedVars == <<backfillEnv, recording, held, sweeps, input, output, stop>>
procVars == <<pc, arg, fetched, steps, stat, last>>
runVars == <<podIndexer, runPc, items, bfI>>
envVars == <<envWrites, faults, clock>>

\* the node informer's and the pod informer's delivery goroutine
Procs == {"nodeL", "podL"}

NoNode == Node("", <<>>, EmptyMap, EmptyMap, 0)
\* of one invocation: the node, whether startupPodReady answered (true, nil), the
\* completion annotation stored at the entry of removeStartupTaint, the Gets and
\* Updates removeStartupTaint issued, the Updates rejected, whether one was accepted
NoStat == [node |-> "", ready |-> FALSE, before |-> "", gets |-> 0, updates |-> 0,
           conflicts |-> 0, wrote |-> FALSE]
NoLast == [err |-> "none", node |-> "", ready |-> FALSE, before |-> "", gets |-> 0,
           updates |-> 0, conflicts |-> 0, wrote |-> FALSE]

Completed(node) == Lookup(node.Annotations, NodeStartupCompletedAnnotation)

----------------------------------------------------------------------------
(* Objects the environment supplies *)

InitLabels == [x \in {StartPodLabelKey} |-> StartPodLabelValue]
ReadyAnnotations == [x \in {StartPodReadyAnnotation} |-> "true"]

\* agent pod, running but not complete
AgentPending(name, nodeName) ==
  Pod(name, "kube-system", InitLabels, EmptyMap, nodeName, <<[Ready |-> FALSE]>>, <<PodReadyFalse>>)
\* agent pod complete by annotation, its containers not ready
AgentAnnotated(name, nodeName) ==
  Pod(name, "kube-system", InitLabels, ReadyAnnotations, nodeName, <<[Ready |-> FALSE]>>, <<PodReadyFalse>>)
\* agent pod complete by container readiness and the PodReady condition
AgentReady(name, nodeName) ==
  Pod(name, "kube-system", InitLabels, EmptyMap, nodeName, <<[Ready |-> TRUE]>>, <<PodReadyTrue>>)
\* an ordinary workload pod
Workload(name, nodeName) ==
  Pod(name, "default", EmptyMap, EmptyMap, nodeName, <<[Ready |-> TRUE]>>, <<PodReadyTrue>>)

\* pods whose agent signals completion by the annotation / by its readiness
AnnotatingShapes(name, nodeName) ==
  {AgentPending(name, nodeName), AgentAnnotated(name, nodeName), Workload(name, nodeName)}
ReportingShapes(name, nodeName) ==
  {AgentPending(name, nodeName), AgentReady(name, nodeName), Workload(name, nodeName)}

\* nodes as a cluster holds them when the controller starts
MarkedShapes(name) ==
  {Node(name, <<StartupTaint>>, EmptyMap, EmptyMap, 1),
   Node(name, <<StartupTaint, WrongValueTaint>>, [x \in {"note"} |-> "a"], EmptyMap, 1)}
UnmarkedShapes(name) ==
  {Node(name, <<>>, EmptyMap, EmptyMap, 1),
   Node(name, <<WrongValueTaint>>, [x \in {NodeStartupCompletedAnnotation} |-> "12345"], EmptyMap, 1)}

\* nodes on which the marker was put more than once
DuplicateShapes(name) ==
  {Node(name, <<StartupTaint, StartupTaint>>, EmptyMap, EmptyMap, 1),
   Node(name, <<StartupTaint, WrongValueTaint, StartupTaint>>, EmptyMap, EmptyMap, 1),
   Node(name, <<WrongValueTaint, StartupTaint, StartupTaint, StartupTaint>>,
        [x \in {"note"} |-> "a"], EmptyMap, 1)}

\* an unmarked node that other clients' taints are on
TaintedShapes(name) ==
  {Node(name, <<NotReadyTaint, WrongValueTaint>>, EmptyMap, EmptyMap, 1)}

\* node objects a kubelet registers
CreateShapes(name) ==
  {Node(name, <<>>, EmptyMap, EmptyMap, 0),
   Node(name, <<StartupTaint>>, EmptyMap, EmptyMap, 0),
   Node(name, <<NotReadyTaint>>, EmptyMap, EmptyMap, 0),
   Node(name, <<>>, EmptyMap, [x \in {aksModeLabel} |-> "system"], 0)}

----------------------------------------------------------------------------
(* The store *)

\* Update: accepted only at the stored resourceVersion
VersionMatches(object) ==
  /\ object.Name \in DOMAIN nodes
  /\ nodes[object.Name].ResourceVersion = object.ResourceVersion

Written(operation, object) ==
  [Admitted(operation, object) EXCEPT !.ResourceVersion = object.ResourceVersion + 1]

\* mutant: the index answers with the pods of every node
ByIndex_AllNodes(nodeName) == {indexed[q] : q \in DOMAIN indexed}

\* podIndexer.ByIndex("byNode", nodeName)
ByIndex(nodeName) ==
  {indexed[q] : q \in {x \in DOMAIN indexed : indexed[x].NodeName = nodeName}}

\* Pods("").List with the field selector spec.nodeName and, if asked, the label selector
ListPods(nodeName, labelled) ==
  {pods[q] : q \in {x \in DOMAIN pods :
      /\ pods[x].NodeName = nodeName
      /\ labelled => Lookup(pods[x].Labels, StartPodLabelKey) = StartPodLabelValue}}

\* the labelled List answered by a store that does not evaluate the field selector
\* (client-go's fake clientset): line 152 is there for it
ListPodsAnyNode ==
  {pods[q] : q \in {x \in DOMAIN pods :
      Lookup(pods[x].Labels, StartPodLabelKey) = StartPodLabelValue}}

\* the objects startupPodReady looks at
ReadinessSource(nodeName) ==
  IF podIndexer # "nil" THEN ByIndex(nodeName) ELSE ListPods(nodeName, TRUE)

\* mutant: the pod of the notification being handled is what is looked at
startupPodReady_FromPayload(nodeName, objs) ==
  annotatedReady(input) \/ (allReady(input) /\ readyCond(input))

\* mutant: an agent pod's presence counts as readiness
startupPodReady_AnyPod(nodeName, objs) == objs # <<>>

\* startupPodReady's ready result when its query succeeds, objs being the query's answer
startupPodReady(nodeName, objs) ==
  IF podIndexer # "nil" THEN indexedReady(objs) ELSE listedReady(objs, nodeName)

\* mutant: answers as it does when its List fails
hasWorkloadPods_Always(objs) == TRUE

\* startupPodReady's two results; failed: the query (ByIndex, or the List) failed.
\* Line 116 drops ByIndex's error and goes on with the objects it got, which are none.
startupPodReadyCall(nodeName, objs, failed) ==
  IF podIndexer # "nil"
  THEN [ready |-> startupPodReady(nodeName, IF failed THEN <<>> ELSE objs), err |-> "nil"]
  ELSE IF failed
       THEN [ready |-> FALSE, err |-> "error"]
       ELSE [ready |-> startupPodReady(nodeName, objs), err |-> "nil"]

\* hasWorkloadPods when its query succeeds
hasWorkloadPods(objs) == workloadIn(objs)

\* mutant: a failed List counts as no workload
hasWorkloadPodsCall_FailOpen(objs, failed) ==
  IF podIndexer # "nil"
  THEN hasWorkloadPods(IF failed THEN <<>> ELSE objs)
  ELSE IF failed THEN FALSE ELSE hasWorkloadPods(objs)

\* hasWorkloadPods; failed: the query (ByIndex, or the List) failed.  Line 237 drops
\* ByIndex's error and goes on with no objects; a failed List answers true (line 252).
hasWorkloadPodsCall(objs, failed) ==
  IF podIndexer # "nil"
  THEN hasWorkloadPods(IF failed THEN <<>> ELSE objs)
  ELSE IF failed THEN TRUE ELSE hasWorkloadPods(objs)

----------------------------------------------------------------------------
(* A handler or a direct call returns *)

Return(p, err, st) ==
  /\ pc' = [pc EXCEPT ![p] = "idle"]
  /\ last' = IF recording
             THEN [last EXCEPT ![p] =
                     [err |-> err, node |-> st.node, ready |-> st.ready,
                      before |-> st.before, gets |-> st.gets, updates |-> st.updates,
                      conflicts |-> st.conflicts, wrote |-> st.wrote]]
             ELSE last
  /\ stat' = [stat EXCEPT ![p] = NoStat]
  /\ arg' = [arg EXCEPT ![p] = NoNode]
  /\ fetched' = [fetched EXCEPT ![p] = NoNode]
  /\ steps' = [steps EXCEPT ![p] = 0]

----------------------------------------------------------------------------
(* Controller.removeStartupTaint: retry.RetryOnConflict(retry.DefaultBackoff, fn) *)

\* entry: RetryOnConflict starts with DefaultBackoff.Steps attempts
EnterRemove(p, node, ready) ==
  /\ pc' = [pc EXCEPT ![p] = "rm_get"]
  /\ arg' = [arg EXCEPT ![p] = node]
  /\ steps' = [steps EXCEPT ![p] = DefaultBackoffSteps]
  /\ stat' = [stat EXCEPT ![p] =
        [NoStat EXCEPT !.node = node.Name, !.ready = ready,
                       !.before = IF node.Name \in DOMAIN nodes
                                  THEN Completed(nodes[node.Name]) ELSE ""]]
  /\ UNCHANGED <<fetched, last>>

\* a test calls removeStartupTaint with the node object it holds
CallRemove(p, name) ==
  /\ pc[p] = "idle"
  /\ name \in DOMAIN held
  /\ calls[name] < MaxCalls
  /\ calls' = [calls EXCEPT ![name] = @ + 1]
  /\ EnterRemove(p, held[name], FALSE)
  /\ UNCHANGED <<storeVars, runVars, envVars, fixedVars, issued, removals>>

\* mutant: the object written is built from the node the caller passed, at the
\* version Get answered
RemoveGet_FromInput(p) ==
  /\ pc[p] = "rm_get"
  /\ LET st == [stat[p] EXCEPT !.gets = @ + 1] IN
     IF arg[p].Name \notin DOMAIN nodes
     THEN Return(p, "error", st)
     ELSE LET n == nodes[arg[p].Name] IN
          IF ~changed(n.Taints)
          THEN Return(p, "nil", st)
          ELSE /\ fetched' = [fetched EXCEPT ![p] =
                    [arg[p] EXCEPT !.Taints = newTaints(@),
                                   !.Annotations = Store(@, NodeStartupCompletedAnnotation,
                                                         FormatInt(clock)),
                                   !.ResourceVersion = n.ResourceVersion]]
               /\ pc' = [pc EXCEPT ![p] = "rm_update"]
               /\ stat' = [stat EXCEPT ![p] = st]
               /\ UNCHANGED <<arg, steps, last>>
  /\ UNCHANGED <<storeVars, runVars, envVars, fixedVars, calls, issued, removals>>

\* lines 181-201: Get, the filter loop, and (a marker was dropped) the new taints and
\* the completion annotation stamped with the time; a node without the marker ends
\* the call.  Nothing but the clock is read between Get's answer and time.Now().
RemoveGet(p) ==
  /\ pc[p] = "rm_get"
  /\ LET st == [stat[p] EXCEPT !.gets = @ + 1] IN
     IF arg[p].Name \notin DOMAIN nodes
     THEN Return(p, "error", st)
     ELSE LET n == nodes[arg[p].Name] IN
          IF ~changed(n.Taints)
          THEN Return(p, "nil", st)
          ELSE /\ fetched' = [fetched EXCEPT ![p] =
                    [n EXCEPT !.Taints = newTaints(n.Taints),
                              !.Annotations = Store(@, NodeStartupCompletedAnnotation,
                                                    FormatInt(clock))]]
               /\ pc' = [pc EXCEPT ![p] = "rm_update"]
               /\ stat' = [stat EXCEPT ![p] = st]
               /\ UNCHANGED <<arg, steps, last>>
  /\ UNCHANGED <<storeVars, runVars, envVars, fixedVars, calls, issued, removals>>

\* line 181-184: Get fails with an error that is no conflict; fn's error ends the retry
RemoveGetErr(p) ==
  /\ pc[p] = "rm_get"
  /\ faults < MaxFaults
  /\ faults' = faults + 1
  /\ Return(p, "error", [stat[p] EXCEPT !.gets = @ + 1])
  /\ UNCHANGED <<storeVars, runVars, envWrites, clock, fixedVars,
                 calls, issued, removals>>

\* line 202: Update at the stored version
RemoveUpdateOk(p) ==
  /\ pc[p] = "rm_update"
  /\ VersionMatches(fetched[p])
  /\ nodes' = [nodes EXCEPT ![fetched[p].Name] = Written("UPDATE", fetched[p])]
  /\ issued' = [issued EXCEPT ![fetched[p].Name] = @ + 1]
  /\ removals' = [removals EXCEPT ![fetched[p].Name] = @ + 1]
  /\ Return(p, "nil", [stat[p] EXCEPT !.updates = @ + 1, !.wrote = TRUE])
  /\ UNCHANGED <<pods, indexed, runVars, envVars, fixedVars, calls>>

\* whether RetryOnConflict runs fn again after a conflict (wait.ExponentialBackoff:
\* the loop ends when backoff.Steps is 1)
\* mutant: retries without a bound
RetryAgain_Unbounded(left) == TRUE

RetryAgain(left) == left > 1

\* line 202: Update at a stale version is a conflict; RetryOnConflict sleeps and runs
\* fn again, or returns the conflict once the steps are used up
RemoveUpdateConflict(p) ==
  /\ pc[p] = "rm_update"
  /\ ~VersionMatches(fetched[p])
  /\ issued' = [issued EXCEPT ![fetched[p].Name] = @ + 1]
  /\ LET st == [stat[p] EXCEPT !.updates = @ + 1, !.conflicts = @ + 1] IN
     IF RetryAgain(steps[p])
     THEN /\ steps' = [steps EXCEPT ![p] = @ - 1]
          /\ pc' = [pc EXCEPT ![p] = "rm_get"]
          /\ stat' = [stat EXCEPT ![p] = st]
          /\ fetched' = [fetched EXCEPT ![p] = NoNode]
          /\ UNCHANGED <<arg, last>>
     ELSE Return(p, "conflict", st)
  /\ UNCHANGED <<storeVars, runVars, envVars, fixedVars, calls, removals>>

\* line 202: Update fails with an error that is no conflict
RemoveUpdateErr(p) ==
  /\ pc[p] = "rm_update"
  /\ faults < MaxFaults
  /\ faults' = faults + 1
  /\ issued' = [issued EXCEPT ![fetched[p].Name] = @ + 1]
  /\ Return(p, "error", [stat[p] EXCEPT !.updates = @ + 1])
  /\ UNCHANGED <<storeVars, runVars, envWrites, clock, fixedVars,
                 calls, removals>>

----------------------------------------------------------------------------
(* Controller.handleNode and Controller.handlePod *)

\* the type assertions obj.(*corev1.Pod) and obj.(*corev1.Node)
IsPod(obj) == "NodeName" \in DOMAIN obj
IsNode(obj) == "Taints" \in DOMAIN obj

\* handleNode is called with an object of any type
HandleNodeObject(p, obj) ==
  /\ pc[p] = "idle"
  /\ pc' = [pc EXCEPT ![p] = "handleNode"]
  /\ arg' = [arg EXCEPT ![p] = obj]
  /\ last' = [last EXCEPT ![p] = NoLast]
  /\ UNCHANGED <<fetched, steps, stat>>
  /\ UNCHANGED <<storeVars, runVars, envVars, fixedVars, calls, issued, removals>>

\* the node informer delivers an add or update (or resync) notification for a node
HandleNodeStart(p, name) ==
  /\ pc[p] = "idle"
  /\ name \in DOMAIN nodes
  /\ pc' = [pc EXCEPT ![p] = "handleNode"]
  /\ arg' = [arg EXCEPT ![p] = nodes[name]]
  /\ last' = [last EXCEPT ![p] = NoLast]
  /\ UNCHANGED <<fetched, steps, stat>>
  /\ UNCHANGED <<storeVars, runVars, envVars, fixedVars, calls, issued, removals>>

\* lines 82-97: the type assertion and the marker check on the object given, the
\* readiness query, the call
HandleNode(p) ==
  /\ pc[p] = "handleNode"
  /\ IF ~IsNode(arg[p])
     THEN Return(p, "not_a_node", stat[p])
     ELSE IF ~HasStartupTaint(arg[p])
     THEN Return(p, "unmarked", stat[p])
     ELSE \E objs \in Orderings(ReadinessSource(arg[p].Name)) :
            IF startupPodReady(arg[p].Name, objs)
            THEN EnterRemove(p, arg[p], TRUE)
            ELSE Return(p, "not_ready", stat[p])
  /\ UNCHANGED <<storeVars, runVars, envVars, fixedVars, calls, issued, removals>>

\* mutant: the query's error is not looked at and the removal goes ahead
HandleNodeListErr_Removes(p) ==
  /\ pc[p] = "handleNode"
  /\ HasStartupTaint(arg[p])
  /\ podIndexer = "nil"
  /\ faults < MaxFaults
  /\ faults' = faults + 1
  /\ EnterRemove(p, arg[p], FALSE)
  /\ UNCHANGED <<storeVars, runVars, envWrites, clock, fixedVars,
                 calls, issued, removals>>

\* lines 89-93 with line 148: the fallback List fails
HandleNodeListErr(p) ==
  /\ pc[p] = "handleNode"
  /\ HasStartupTaint(arg[p])
  /\ podIndexer = "nil"
  /\ faults < MaxFaults
  /\ faults' = faults + 1
  /\ Return(p, "query_error", stat[p])
  /\ UNCHANGED <<storeVars, runVars, envWrites, clock, fixedVars,
                 calls, issued, removals>>

\* mutant: the label is not looked at
HandlePodStart_AnyPod(p, payload) ==
  /\ pc[p] = "idle"
  /\ IF ~IsPod(payload) THEN Return(p, "not_a_pod", NoStat)
     ELSE IF payload.NodeName = "" THEN Return(p, "unbound", NoStat)
     ELSE /\ pc' = [pc EXCEPT ![p] = "hp_get"]
          /\ arg' = [arg EXCEPT ![p] = [NoNode EXCEPT !.Name = payload.NodeName]]
          /\ last' = [last EXCEPT ![p] = NoLast]
          /\ UNCHANGED <<fetched, steps, stat>>
  /\ UNCHANGED <<storeVars, runVars, envVars, fixedVars, calls, issued, removals>>

\* lines 61-70: a notification; only a pod that is labelled and bound to a node goes on
HandlePodStart(p, payload) ==
  /\ pc[p] = "idle"
  /\ IF ~IsPod(payload) THEN Return(p, "not_a_pod", NoStat)
     ELSE IF Lookup(payload.Labels, StartPodLabelKey) # StartPodLabelValue
     THEN Return(p, "unlabelled", NoStat)
     ELSE IF payload.NodeName = "" THEN Return(p, "unbound", NoStat)
     ELSE /\ pc' = [pc EXCEPT ![p] = "hp_get"]
          /\ arg' = [arg EXCEPT ![p] = [NoNode EXCEPT !.Name = payload.NodeName]]
          /\ last' = [last EXCEPT ![p] = NoLast]
          /\ UNCHANGED <<fetched, steps, stat>>
  /\ UNCHANGED <<storeVars, runVars, envVars, fixedVars, calls, issued, removals>>

\* mutant: the fetched node is handed to handleNode whether marked or not
HandlePodGet_Unconditional(p) ==
  /\ pc[p] = "hp_get"
  /\ IF arg[p].Name \notin DOMAIN nodes
     THEN Return(p, "get_error", stat[p])
     ELSE /\ pc' = [pc EXCEPT ![p] = "handleNode"]
          /\ arg' = [arg EXCEPT ![p] = nodes[arg[p].Name]]
          /\ UNCHANGED <<fetched, steps, stat, last>>
  /\ UNCHANGED <<storeVars, runVars, envVars, fixedVars, calls, issued, removals>>

\* lines 72-78: Get the pod's node; a marked node is handed to handleNode
HandlePodGet(p) ==
  /\ pc[p] = "hp_get"
  /\ IF arg[p].Name \notin DOMAIN nodes
     THEN Return(p, "get_error", stat[p])
     ELSE IF HasStartupTaint(nodes[arg[p].Name])
          THEN /\ pc' = [pc EXCEPT ![p] = "handleNode"]
               /\ arg' = [arg EXCEPT ![p] = nodes[arg[p].Name]]
               /\ UNCHANGED <<fetched, steps, stat, last>>
          ELSE Return(p, "unmarked", stat[p])
  /\ UNCHANGED <<storeVars, runVars, envVars, fixedVars, calls, issued, removals>>

\* lines 72-75: the Get fails
HandlePodGetErr(p) ==
  /\ pc[p] = "hp_get"
  /\ faults < MaxFaults
  /\ faults' = faults + 1
  /\ Return(p, "get_error", stat[p])
  /\ UNCHANGED <<storeVars, runVars, envWrites, clock, fixedVars,
                 calls, issued, removals>>

----------------------------------------------------------------------------
(* Controller.Run and Controller.backfillTaint *)

\* lines 30-49: the indexer is set, the handlers registered, the informers started
RunStart ==
  /\ runPc = "new"
  /\ podIndexer' = "set"
  /\ runPc' = "syncing"
  /\ UNCHANGED <<storeVars, procVars, envVars, fixedVars, calls, issued, removals,
                 items, bfI>>

\* lines 50-55: WaitForCacheSync(stop) returns once the caches hold the listed
\* objects, or once stop is closed; its result is not looked at
RunSynced ==
  /\ runPc = "syncing"
  /\ indexed = pods \/ stop
  /\ runPc' = IF backfillEnv = "1" THEN "bf_list" ELSE "blocked"
  /\ UNCHANGED <<storeVars, procVars, envVars, fixedVars, calls, issued, removals,
                 podIndexer, items, bfI>>

\* the loop of lines 213-232 moves to the next item, or Run blocks on <-stop
NextItem ==
  IF bfI < Len(items)
  THEN /\ bfI' = bfI + 1
       /\ runPc' = "bf_node"
       /\ UNCHANGED items
  ELSE /\ bfI' = 0
       /\ runPc' = "blocked"
       /\ items' = <<>>

\* line 208: List the nodes
BackfillList ==
  /\ runPc = "bf_list"
  /\ \E listed \in Orderings({nodes[x] : x \in DOMAIN nodes}) :
       /\ items' = listed
       /\ bfI' = IF listed = <<>> THEN 0 ELSE 1
       /\ runPc' = IF listed = <<>> THEN "blocked" ELSE "bf_node"
  /\ UNCHANGED <<storeVars, procVars, envVars, fixedVars, calls, issued, removals,
                 podIndexer>>

\* mutant: a failed List ends Run
BackfillListErr_Fatal ==
  /\ runPc = "bf_list"
  /\ faults < MaxFaults
  /\ faults' = faults + 1
  /\ runPc' = "returned"
  /\ UNCHANGED <<storeVars, procVars, envWrites, clock, fixedVars, calls,
                 issued, removals, podIndexer, items, bfI>>

\* lines 208-212: the List fails, which is logged; backfillTaint returns and Run
\* goes on to block on <-stop
BackfillListErr ==
  /\ runPc = "bf_list"
  /\ faults < MaxFaults
  /\ faults' = faults + 1
  /\ runPc' = "blocked"
  /\ UNCHANGED <<storeVars, procVars, envWrites, clock, fixedVars, calls,
                 issued, removals, podIndexer, items, bfI>>

\* the objects hasWorkloadPods looks at
WorkloadSource(nodeName) ==
  IF podIndexer # "nil" THEN ByIndex(nodeName) ELSE ListPods(nodeName, FALSE)

\* lines 215-225: whether backfillTaint passes over nodes.Items[i]
\* mutant: the completion annotation is not looked at
Skips_IgnoringCompletion(n, objs) ==
  \/ HasStartupTaint(n)
  \/ hasWorkloadPods(objs)

\* mutant: the marker is not looked at
Skips_IgnoringMarker(n, objs) ==
  \/ Completed(n) # ""
  \/ hasWorkloadPods(objs)

Skips(n, objs) ==
  \/ HasStartupTaint(n)
  \/ Completed(n) # ""
  \/ hasWorkloadPods(objs)

\* lines 214-226: the checks on one item and, if it passes, the marker appended to it
BackfillNode ==
  /\ runPc = "bf_node"
  /\ \E objs \in Orderings(WorkloadSource(items[bfI].Name)) :
       IF Skips(items[bfI], objs)
       THEN NextItem
       ELSE /\ items' = [items EXCEPT ![bfI].Taints = Append(@, StartupTaint)]
            /\ runPc' = "bf_update"
            /\ UNCHANGED bfI
  /\ UNCHANGED <<storeVars, procVars, envVars, fixedVars, calls, issued, removals,
                 podIndexer>>

\* lines 215-226 with the pod List of hasWorkloadPods (lines 248-250), which is
\* reached for an item without marker and completion, failing
BackfillNodePodsErr ==
  /\ runPc = "bf_node"
  /\ podIndexer = "nil"
  /\ ~HasStartupTaint(items[bfI])
  /\ Completed(items[bfI]) = ""
  /\ faults < MaxFaults
  /\ faults' = faults + 1
  /\ IF hasWorkloadPodsCall(<<>>, TRUE)
     THEN NextItem
     ELSE /\ items' = [items EXCEPT ![bfI].Taints = Append(@, StartupTaint)]
          /\ runPc' = "bf_update"
          /\ UNCHANGED bfI
  /\ UNCHANGED <<storeVars, procVars, envWrites, clock, fixedVars, calls, issued,
                 removals, podIndexer>>

\* line 227: the Update of the list item is accepted
BackfillUpdateOk ==
  /\ runPc = "bf_update"
  /\ VersionMatches(items[bfI])
  /\ nodes' = [nodes EXCEPT ![items[bfI].Name] = Written("UPDATE", items[bfI])]
  /\ NextItem
  /\ UNCHANGED <<pods, indexed, procVars, envVars, fixedVars, calls, issued,
                 removals, podIndexer>>

\* mutant: a rejected Update makes the sweep fetch the node and evaluate it again
BackfillUpdateConflict_Retries ==
  /\ runPc = "bf_update"
  /\ ~VersionMatches(items[bfI])
  /\ items' = [items EXCEPT ![bfI] = nodes[items[bfI].Name]]
  /\ runPc' = "bf_node"
  /\ UNCHANGED bfI
  /\ UNCHANGED <<storeVars, procVars, envVars, fixedVars, calls, issued, removals,
                 podIndexer>>

\* lines 227-228: the Update of a stale list item is rejected, which is only logged
BackfillUpdateConflict ==
  /\ runPc = "bf_update"
  /\ ~VersionMatches(items[bfI])
  /\ NextItem
  /\ UNCHANGED <<storeVars, procVars, envVars, fixedVars, calls, issued, removals,
                 podIndexer>>

\* mutant: a failed Update ends the sweep
BackfillUpdateErr_Stops ==
  /\ runPc = "bf_update"
  /\ faults < MaxFaults
  /\ faults' = faults + 1
  /\ bfI' = 0
  /\ runPc' = "blocked"
  /\ items' = <<>>
  /\ UNCHANGED <<storeVars, procVars, envWrites, clock, fixedVars, calls, issued,
                 removals, podIndexer>>

\* lines 227-228: the Update fails with an error that is no conflict; it is logged
\* and the loop goes on
BackfillUpdateErr ==
  /\ runPc = "bf_update"
  /\ faults < MaxFaults
  /\ faults' = faults + 1
  /\ NextItem
  /\ UNCHANGED <<storeVars, procVars, envWrites, clock, fixedVars, calls, issued,
                 removals, podIndexer>>

\* line 57: <-stop returns once the channel is closed, and Run returns
RunReturn ==
  /\ runPc = "blocked"
  /\ stop
  /\ runPc' = "returned"
  /\ UNCHANGED <<storeVars, procVars, envVars, fixedVars, calls, issued, removals,
                 podIndexer, items, bfI>>

\* main closes the stop channel on SIGTERM or SIGINT
CloseStop ==
  /\ ~stop
  /\ stop' = TRUE
  /\ UNCHANGED <<storeVars, procVars, runVars, envVars, backfillEnv, recording, held,
                 sweeps, input, output, calls, issued, removals>>

\* the informers factory.Start(stop) started run, and deliver, until stop is closed
Delivering == runPc # "new" /\ ~stop

\* backfillTaint is called: by a test on a controller that never ran, or again on a
\* running one (a periodic sweep)
CallBackfill ==
  /\ runPc \in {"new", "blocked"}
  /\ sweeps < MaxSweeps
  /\ sweeps' = sweeps + 1
  /\ runPc' = "bf_list"
  /\ UNCHANGED <<storeVars, procVars, envVars, backfillEnv, recording, held, stop, input,
                 output, calls, issued, removals, podIndexer, items, bfI>>

----------------------------------------------------------------------------
(* The environment: other clients of the store, pod owners, the clock *)

\* the taints another client leaves: it sets or clears the not-ready taint
Toggled(taints) ==
  IF \E i \in 1..Len(taints) : taints[i] = NotReadyTaint
  THEN SelectSeq(taints, LAMBDA t : t # NotReadyTaint)
  ELSE <<NotReadyTaint>> \o taints

\* another client updates a node (an UPDATE, which passes the webhook)
OtherWriter(name, budget) ==
  /\ name \in DOMAIN nodes
  /\ envWrites < budget
  /\ envWrites' = envWrites + 1
  /\ nodes' = [nodes EXCEPT ![name] =
        Written("UPDATE", [nodes[name] EXCEPT !.Taints = Toggled(@)])]
  /\ UNCHANGED <<pods, indexed, procVars, runVars, faults, clock, fixedVars, calls, issued, removals>>

\* another client puts the marker on a node that has none (an operator gating the
\* node again, another replica's sweep)
OtherMarks(name) ==
  /\ name \in DOMAIN nodes
  /\ ~HasStartupTaint(nodes[name])
  /\ envWrites < MaxEnvWrites
  /\ envWrites' = envWrites + 1
  /\ nodes' = [nodes EXCEPT ![name] =
        Written("UPDATE", [nodes[name] EXCEPT !.Taints = Append(@, StartupTaint)])]
  /\ UNCHANGED <<pods, indexed, procVars, runVars, faults, clock, fixedVars, calls, issued, removals>>

\* a kubelet registers a node (a CREATE, which passes the webhook)
CreateNode(name, object) ==
  /\ name \notin DOMAIN nodes
  /\ nodes' = Store(nodes, name, Written("CREATE", object))
  /\ UNCHANGED <<pods, indexed, procVars, runVars, envVars, fixedVars, calls,
                 issued, removals>>

\* a pod is created, or its owner or kubelet updates it; its binding does not change
PodSet(q, object) ==
  /\ q \in DOMAIN pods => (object # pods[q] /\ object.NodeName = pods[q].NodeName)
  /\ pods' = Store(pods, q, object)
  /\ UNCHANGED <<nodes, indexed, procVars, runVars, envVars, fixedVars, calls, issued, removals>>

\* a pod is deleted
PodDelete(q) ==
  /\ q \in DOMAIN pods
  /\ pods' = [x \in (DOMAIN pods) \ {q} |-> pods[x]]
  /\ UNCHANGED <<nodes, indexed, procVars, runVars, envVars, fixedVars, calls, issued, removals>>

\* the pod informer's watch catches up with one pod
PodInformerSync(q) ==
  /\ podIndexer = "set"
  /\ IF q \in DOMAIN pods
     THEN /\ (q \in DOMAIN indexed => indexed[q] # pods[q])
          /\ indexed' = Store(indexed, q, pods[q])
     ELSE /\ q \in DOMAIN indexed
          /\ indexed' = [x \in (DOMAIN indexed) \ {q} |-> indexed[x]]
  /\ UNCHANGED <<nodes, pods, procVars, runVars, envVars, fixedVars, calls,
                 issued, removals>>

\* a second passes
Tick ==
  /\ clock < ClockStart + MaxTicks
  /\ clock' = clock + 1
  /\ UNCHANGED <<storeVars, procVars, runVars, envWrites, faults, fixedVars, calls, issued, removals>>

----------------------------------------------------------------------------
(* Specifications *)

\* nothing has run yet
Idle ==
  /\ clock = ClockStart
  /\ pc = [p \in Procs |-> "idle"]
  /\ arg = [p \in Procs |-> NoNode]
  /\ fetched = [p \in Procs |-> NoNode]
  /\ steps = [p \in Procs |-> 0]
  /\ stat = [p \in Procs |-> NoStat]
  /\ last = [p \in Procs |-> NoLast]
  /\ held = nodes
  /\ calls = [x \in NodeNames |-> 0]
  /\ issued = [x \in NodeNames |-> 0]
  /\ removals = [x \in NodeNames |-> 0]
  /\ runPc = "new"
  /\ items = <<>>
  /\ bfI = 0
  /\ envWrites = 0
  /\ faults = 0
  /\ sweeps = 0
  /\ stop = FALSE

InitCommon ==
  /\ input = <<>>
  /\ output = <<>>
  /\ Idle

\* The controller as deployed by default (STARTUP_BACKFILL unset), constructed in a
\* cluster whose node n1 is registered, marked or not, or registers later.
Init ==
  /\ nodes \in {EmptyMap} \cup
       {[x \in {"n1"} |-> n] : n \in MarkedShapes("n1") \cup UnmarkedShapes("n1")}
  /\ pods = EmptyMap
  /\ indexed = EmptyMap
  /\ podIndexer = "nil"
  /\ backfillEnv = ""
  /\ recording = FALSE
  /\ InitCommon

Next ==
  \/ HandleNodeStart("nodeL", "n1")
  \/ \E payload \in {pods[q] : q \in DOMAIN pods} \cup {indexed[q] : q \in DOMAIN indexed} :
       HandlePodStart("podL", payload)
  \/ \E p \in Procs :
       \/ HandleNode(p)
       \/ HandlePodGet(p)
       \/ RemoveGet(p)
       \/ RemoveUpdateOk(p)
       \/ RemoveUpdateConflict(p)
  \/ RunStart
  \/ RunSynced
  \/ OtherWriter("n1", MaxEnvWrites)
  \/ \E object \in CreateShapes("n1") : CreateNode("n1", object)
  \/ \E q \in PodNames : \E object \in AnnotatingShapes(q, "n1") : PodSet(q, object)
  \/ \E q \in PodNames : PodDelete(q)
  \/ \E q \in PodNames : PodInformerSync(q)
  \/ Tick

Spec == Init /\ [][Next]_vars

\* The controller started with STARTUP_BACKFILL=1: Run's sweep, the node informer's
\* goroutine, the webhook and the other clients.
InitBackfill ==
  /\ nodes \in {EmptyMap} \cup
       {[x \in {"n1"} |-> n] : n \in MarkedShapes("n1") \cup UnmarkedShapes("n1")}
  /\ pods = EmptyMap
  /\ indexed = EmptyMap
  /\ podIndexer = "nil"
  /\ backfillEnv = "1"
  /\ recording = FALSE
  /\ InitCommon

NextBackfill ==
  \/ HandleNodeStart("nodeL", "n1")
  \/ HandleNode("nodeL")
  \/ RemoveGet("nodeL")
  \/ RemoveUpdateOk("nodeL")
  \/ RemoveUpdateConflict("nodeL")
  \/ RunStart
  \/ RunSynced
  \/ BackfillList
  \/ BackfillNode
  \/ BackfillUpdateOk
  \/ BackfillUpdateConflict
  \/ OtherWriter("n1", MaxEnvWrites)
  \/ \E object \in CreateShapes("n1") : CreateNode("n1", object)
  \/ \E q \in PodNames : \E object \in ReportingShapes(q, "n1") : PodSet(q, object)
  \/ \E q \in PodNames : PodDelete(q)
  \/ \E q \in PodNames : PodInformerSync(q)
  \/ Tick

SpecBackfill == InitBackfill /\ [][NextBackfill]_vars

\* backfillTaint called on its own, and called again, next to the node informer's
\* handler, the pods' owners and other clients, one of which may mark a node.
InitSweep ==
  /\ \E n \in MarkedShapes("n1") \cup UnmarkedShapes("n1") : nodes = [x \in {"n1"} |-> n]
  /\ pods = EmptyMap
  /\ indexed = EmptyMap
  /\ podIndexer = "nil"
  /\ backfillEnv = ""
  /\ recording = FALSE
  /\ InitCommon

NextSweep ==
  \/ HandleNodeStart("nodeL", "n1")
  \/ HandleNode("nodeL")
  \/ RemoveGet("nodeL")
  \/ RemoveUpdateOk("nodeL")
  \/ RemoveUpdateConflict("nodeL")
  \/ RunStart
  \/ RunSynced
  \/ CallBackfill
  \/ BackfillList
  \/ BackfillNode
  \/ BackfillUpdateOk
  \/ BackfillUpdateConflict
  \/ OtherWriter("n1", MaxEnvWrites)
  \/ OtherMarks("n1")
  \/ \E q \in PodNames : \E object \in ReportingShapes(q, "n1") : PodSet(q, object)
  \/ \E q \in PodNames : PodInformerSync(q)
  \/ Tick

SpecSweep == InitSweep /\ [][NextSweep]_vars

\* backfillTaint called with nothing else running: two nodes, at most one pod on n1,
\* the controller with or without its index.
InitSweepAlone ==
  /\ \E a \in MarkedShapes("n1") \cup UnmarkedShapes("n1") \cup TaintedShapes("n1") :
     \E b \in MarkedShapes("n2") \cup UnmarkedShapes("n2") \cup TaintedShapes("n2") :
       nodes = [x \in {"n1", "n2"} |-> IF x = "n1" THEN a ELSE b]
  /\ pods \in {EmptyMap} \cup
       {[x \in {"p1"} |-> o] : o \in {Workload("p1", "n1"), AgentPending("p1", "n1")}}
  /\ \/ podIndexer = "nil" /\ indexed = EmptyMap /\ runPc = "new"
     \/ podIndexer = "set" /\ indexed = pods /\ runPc = "blocked"
  /\ backfillEnv = ""
  /\ recording = FALSE
  /\ clock = ClockStart
  /\ pc = [p \in Procs |-> "idle"]
  /\ arg = [p \in Procs |-> NoNode]
  /\ fetched = [p \in Procs |-> NoNode]
  /\ steps = [p \in Procs |-> 0]
  /\ stat = [p \in Procs |-> NoStat]
  /\ last = [p \in Procs |-> NoLast]
  /\ held = nodes
  /\ calls = [x \in NodeNames |-> 0]
  /\ issued = [x \in NodeNames |-> 0]
  /\ removals = [x \in NodeNames |-> 0]
  /\ items = <<>>
  /\ bfI = 0
  /\ envWrites = 0
  /\ faults = 0
  /\ sweeps = 0
  /\ stop = FALSE
  /\ input = <<>>
  /\ output = <<>>

NextSweepAlone ==
  \/ CallBackfill
  \/ BackfillList
  \/ BackfillNode
  \/ BackfillUpdateOk

SpecSweepAlone == InitSweepAlone /\ [][NextSweepAlone]_vars

\* backfillTaint called with nothing else running, its store calls failing
NextSweepFaults ==
  \/ CallBackfill
  \/ BackfillList
  \/ BackfillListErr
  \/ BackfillNode
  \/ BackfillUpdateOk
  \/ BackfillUpdateErr

SpecSweepFaults == InitSweepAlone /\ [][NextSweepFaults]_vars

\* backfillTaint called while another client writes the nodes
NextSweepStale ==
  \/ CallBackfill
  \/ BackfillList
  \/ BackfillNode
  \/ BackfillUpdateOk
  \/ BackfillUpdateConflict
  \/ \E name \in NodeNames : OtherWriter(name, MaxEnvWrites)

SpecSweepStale == InitSweepAlone /\ [][NextSweepStale]_vars

\* backfillTaint called with nothing else running, its pod List failing
NextSweepPods ==
  \/ CallBackfill
  \/ BackfillList
  \/ BackfillNode
  \/ BackfillNodePodsErr
  \/ BackfillUpdateOk

SpecSweepPods == InitSweepAlone /\ [][NextSweepPods]_vars

----------------------------------------------------------------------------
(* Scenarios: the units the repository's tests drive, with outcomes recorded *)

InitQuiet ==
  /\ backfillEnv = ""
  /\ recording = TRUE
  /\ InitCommon

\* Two notifications for one marked node whose agent pod is complete: a node
\* notification and a pod notification, each handled once, on the two goroutines.
InitRace ==
  /\ \E n \in MarkedShapes("n1") : nodes = [x \in {"n1"} |-> n]
  /\ \E o \in {AgentAnnotated("p1", "n1"), AgentReady("p1", "n1")} :
       pods = [x \in {"p1"} |-> o]
  /\ \/ podIndexer = "nil" /\ indexed = EmptyMap
     \/ podIndexer = "set" /\ indexed = pods
  /\ InitQuiet

RaceNodeEvent ==
  /\ last["nodeL"].err = "none"
  /\ HandleNodeStart("nodeL", "n1")

RacePodEvent ==
  /\ last["podL"].err = "none"
  /\ HandlePodStart("podL", pods["p1"])

NextRace ==
  \/ RaceNodeEvent
  \/ RacePodEvent
  \/ \E p \in Procs :
       \/ HandleNode(p)
       \/ HandlePodGet(p)
       \/ RemoveGet(p)
       \/ RemoveUpdateOk(p)
       \/ RemoveUpdateConflict(p)
  \/ Tick

SpecRace == InitRace /\ [][NextRace]_vars

\* removeStartupTaint called directly, one call after the other, with the node
\* objects the caller built the store from; nothing else writes.
InitSeq ==
  /\ \E n1 \in MarkedShapes("n1") \cup UnmarkedShapes("n1") :
     \E n2 \in MarkedShapes("n2") \cup UnmarkedShapes("n2") :
       nodes = [x \in {"n1", "n2"} |-> IF x = "n1" THEN n1 ELSE n2]
  /\ pods = EmptyMap
  /\ indexed = EmptyMap
  /\ podIndexer = "nil"
  /\ InitQuiet

NextSeq ==
  \/ \E name \in NodeNames : CallRemove("nodeL", name)
  \/ RemoveGet("nodeL")
  \/ RemoveUpdateOk("nodeL")
  \/ Tick

SpecSeq == InitSeq /\ [][NextSeq]_vars

\* removeStartupTaint called directly on a marked node that another client keeps
\* writing.
InitContention ==
  /\ \E n \in MarkedShapes("n1") : nodes = [x \in {"n1"} |-> n]
  /\ pods = EmptyMap
  /\ indexed = EmptyMap
  /\ podIndexer = "nil"
  /\ InitQuiet

NextContention ==
  \/ CallRemove("nodeL", "n1")
  \/ RemoveGet("nodeL")
  \/ RemoveUpdateOk("nodeL")
  \/ RemoveUpdateConflict("nodeL")
  \/ OtherWriter("n1", MaxContention)
  \/ Tick

SpecContention == InitContention /\ [][NextContention]_vars

\* removeStartupTaint called directly on a node that carries the marker several
\* times and that another client keeps writing.
InitDuplicates ==
  /\ \E n \in DuplicateShapes("n1") : nodes = [x \in {"n1"} |-> n]
  /\ pods = EmptyMap
  /\ indexed = EmptyMap
  /\ podIndexer = "nil"
  /\ InitQuiet

SpecDuplicates == InitDuplicates /\ [][NextContention]_vars

\* The controller running against a cluster whose node n1 carries the marker: the
\* node informer re-delivers n1 (watch events and the 30 s resync), the pod informer
\* delivers the pods of its cache, store calls fail now and then, other clients write.
InitLive ==
  /\ \E n \in MarkedShapes("n1") : nodes = [x \in {"n1"} |-> n]
  /\ pods = EmptyMap
  /\ indexed = EmptyMap
  /\ podIndexer = "nil"
  /\ backfillEnv = ""
  /\ recording = FALSE
  /\ InitCommon

\* one step of the handler running on goroutine p
HandlerStep(p) ==
  \/ HandleNode(p)
  \/ HandlePodGet(p)
  \/ RemoveGet(p)
  \/ RemoveUpdateOk(p)
  \/ RemoveUpdateConflict(p)

\* a store call of the handler on goroutine p fails
HandlerFault(p) ==
  \/ HandleNodeListErr(p)
  \/ HandlePodGetErr(p)
  \/ RemoveGetErr(p)
  \/ RemoveUpdateErr(p)

NextLive ==
  \/ HandleNodeStart("nodeL", "n1")
  \/ \E payload \in {indexed[q] : q \in DOMAIN indexed} : HandlePodStart("podL", payload)
  \/ \E p \in Procs : HandlerStep(p)
  \/ \E p \in Procs : HandlerFault(p)
  \/ RunStart
  \/ RunSynced
  \/ OtherWriter("n1", MaxEnvWrites)
  \/ \E q \in PodNames : \E object \in AnnotatingShapes(q, "n1") : PodSet(q, object)
  \/ \E q \in PodNames : PodInformerSync(q)
  \/ Tick

\* The informers keep delivering (a node is re-delivered at every resync), a handler
\* that has started runs on, Run proceeds and the pod informer's watch catches up.
\* Nothing obliges the environment to write, to fail a call or to change a pod.
Fairness ==
  /\ WF_vars(HandleNodeStart("nodeL", "n1"))
  /\ \A p \in Procs : WF_vars(HandlerStep(p))
  /\ WF_vars(RunStart)
  /\ WF_vars(RunSynced)
  /\ \A q \in PodNames : WF_vars(PodInformerSync(q))

SpecLive == InitLive /\ [][NextLive]_vars /\ Fairness

\* Controller.Run from its call to its return: the node informer's goroutine delivers
\* while it runs, store calls fail, another client keeps writing the node, and
\* main closes the stop channel at any moment.
InitRun ==
  /\ \E n \in MarkedShapes("n1") \cup UnmarkedShapes("n1") : nodes = [x \in {"n1"} |-> n]
  /\ pods \in {EmptyMap} \cup
       {[x \in {"p1"} |-> o] : o \in {AgentAnnotated("p1", "n1"), Workload("p1", "n1")}}
  /\ indexed = EmptyMap
  /\ podIndexer = "nil"
  /\ backfillEnv \in {"", "1"}
  /\ recording = FALSE
  /\ InitCommon

\* one step of Run's own goroutine
RunStep ==
  \/ RunStart
  \/ RunSynced
  \/ BackfillList
  \/ BackfillListErr
  \/ BackfillNode
  \/ BackfillUpdateOk
  \/ BackfillUpdateConflict
  \/ BackfillUpdateErr
  \/ RunReturn

NextRun ==
  \/ RunStep
  \/ CloseStop
  \/ Delivering /\ HandleNodeStart("nodeL", "n1")
  \/ HandleNode("nodeL")
  \/ RemoveGet("nodeL")
  \/ RemoveGetErr("nodeL")
  \/ RemoveUpdateOk("nodeL")
  \/ RemoveUpdateConflict("nodeL")
  \/ RemoveUpdateErr("nodeL")
  \/ OtherWriter("n1", MaxContention)
  \/ \E q \in PodNames : Delivering /\ PodInformerSync(q)

\* Run's goroutine is scheduled; nothing obliges main to close the channel
FairnessRun == WF_vars(RunStep)

SpecRun == InitRun /\ [][NextRun]_vars /\ FairnessRun

\* The handlers given notifications that are none of their business, in a cluster
\* in which a relevant one would lead to a removal: n1 is marked and its agent pod p1
\* is complete.  n2 is not in the store, so a Get of it fails.
InitEvents ==
  /\ \E n \in MarkedShapes("n1") : nodes = [x \in {"n1"} |-> n]
  /\ \E o \in {AgentAnnotated("p1", "n1"), AgentReady("p1", "n1")} :
       pods = [x \in {"p1"} |-> o]
  /\ \/ podIndexer = "nil" /\ indexed = EmptyMap
     \/ podIndexer = "set" /\ indexed = pods
  /\ InitQuiet

\* what handlePod is to ignore: an object that is no pod; pods without the label
\* or with another value of it, complete or annotated as they may be; a labelled pod
\* not bound to a node; a labelled pod whose node cannot be fetched
IrrelevantToHandlePod ==
  {nodes["n1"],
   Workload("p2", "n1"),
   Pod("p2", "kube-system", EmptyMap, ReadyAnnotations, "n1", <<[Ready |-> TRUE]>>,
       <<PodReadyTrue>>),
   Pod("p2", "kube-system", [x \in {StartPodLabelKey} |-> "other"], ReadyAnnotations,
       "n1", <<[Ready |-> TRUE]>>, <<PodReadyTrue>>),
   AgentAnnotated("p2", ""),
   AgentReady("p2", ""),
   AgentAnnotated("p2", "n2")}

\* what handleNode is to ignore: an object that is no node
IrrelevantToHandleNode == {pods["p1"], AgentAnnotated("p2", "n1")}

NextEvents ==
  \/ \E payload \in IrrelevantToHandlePod : HandlePodStart("podL", payload)
  \/ HandlePodGet("podL")
  \/ HandlePodGetErr("podL")
  \/ \E obj \in IrrelevantToHandleNode : HandleNodeObject("nodeL", obj)
  \/ HandleNode("nodeL")
  \/ Tick

SpecEvents == InitEvents /\ [][NextEvents]_vars

\* handleNode on a controller without an index (one that never ran, as the tests
\* build it), so that startupPodReady Lists the pods, and the List may fail
InitQueryErr ==
  /\ \E n \in MarkedShapes("n1") : nodes = [x \in {"n1"} |-> n]
  /\ pods \in {EmptyMap} \cup
       {[x \in {"p1"} |-> o] : o \in {AgentPending("p1", "n1"), AgentAnnotated("p1", "n1"),
                                      AgentReady("p1", "n1")}}
  /\ indexed = EmptyMap
  /\ podIndexer = "nil"
  /\ InitQuiet

NextQueryErr ==
  \/ HandleNodeStart("nodeL", "n1")
  \/ HandleNode("nodeL")
  \/ HandleNodeListErr("nodeL")
  \/ RemoveGet("nodeL")
  \/ RemoveUpdateOk("nodeL")
  \/ \E q \in PodNames : \E object \in AnnotatingShapes(q, "n1") : PodSet(q, object)
  \/ Tick

SpecQueryErr == InitQueryErr /\ [][NextQueryErr]_vars

\* Two marked or unmarked nodes, each with its own agent pod, and notifications
\* for both on the two goroutines; only the handlers write the nodes.
InitNodes ==
  /\ \E a \in MarkedShapes("n1") :
     \E b \in MarkedShapes("n2") \cup UnmarkedShapes("n2") :
       nodes = [x \in {"n1", "n2"} |-> IF x = "n1" THEN a ELSE b]
  /\ \E o1 \in {AgentPending("p1", "n1"), AgentAnnotated("p1", "n1")} :
     \E o2 \in {AgentPending("p2", "n2"), AgentAnnotated("p2", "n2")} :
       pods = [x \in {"p1", "p2"} |-> IF x = "p1" THEN o1 ELSE o2]
  /\ \/ podIndexer = "nil" /\ indexed = EmptyMap
     \/ podIndexer = "set" /\ indexed = pods
  /\ backfillEnv = ""
  /\ recording = FALSE
  /\ InitCommon

\* the node a pod of the two is bound to
HomeOf(q) == IF q = "p1" THEN "n1" ELSE "n2"

NextNodes ==
  \/ \E name \in NodeNames : HandleNodeStart("nodeL", name)
  \/ \E payload \in {pods[q] : q \in DOMAIN pods} : HandlePodStart("podL", payload)
  \/ \E p \in Procs : HandlerStep(p)
  \/ \E q \in DOMAIN pods :
       \E object \in {AgentPending(q, HomeOf(q)), AgentAnnotated(q, HomeOf(q))} :
         PodSet(q, object)
  \/ \E q \in DOMAIN pods : PodInformerSync(q)

SpecNodes == InitNodes /\ [][NextNodes]_vars

----------------------------------------------------------------------------
(* Functions evaluated on their own *)

\* HasStartupTaint applied to a node with up to MaxTaints taints
InitPredicate ==
  /\ input \in SeqsUpTo({StartupTaint, WrongValueTaint, WrongEffectTaint, NotReadyTaint},
                        MaxTaints)
  /\ output = <<>>
  /\ nodes = EmptyMap
  /\ pods = EmptyMap
  /\ indexed = EmptyMap
  /\ podIndexer = "nil"
  /\ backfillEnv = ""
  /\ recording = FALSE
  /\ Idle

EvalHasStartupTaint ==
  /\ output = <<>>
  /\ output' = <<HasStartupTaint(Node("n1", input, EmptyMap, EmptyMap, 1))>>
  /\ UNCHANGED <<storeVars, procVars, runVars, envVars, backfillEnv, recording, held, stop,
                 sweeps, input, calls, issued, removals>>

NextPredicate == EvalHasStartupTaint

SpecPredicate == InitPredicate /\ [][NextPredicate]_vars

\* startupPodReady asked about n1, over up to two pods of every shape
EvalPods == {"p1", "p2"}

PodPool(name) ==
  {Pod(name, "kube-system", labels, annotations, nodeName, containers, conditions) :
     labels \in {InitLabels, EmptyMap},
     annotations \in {EmptyMap, ReadyAnnotations,
                      [x \in {StartPodReadyAnnotation} |-> "false"]},
     nodeName \in NodeNames,
     containers \in {<<>>, <<[Ready |-> TRUE]>>, <<[Ready |-> FALSE]>>,
                     <<[Ready |-> TRUE], [Ready |-> FALSE]>>},
     conditions \in {<<>>, <<PodReadyTrue>>, <<PodReadyFalse>>}}

InitReadiness ==
  /\ \E present \in SUBSET EvalPods :
       pods \in [present -> UNION {PodPool(q) : q \in present}]
  /\ \A q \in DOMAIN pods : pods[q].Name = q
  /\ \/ podIndexer = "nil" /\ indexed = EmptyMap
     \/ podIndexer = "set" /\ indexed = pods
  /\ input \in {[nodeName |-> "n1", failed |-> f] : f \in BOOLEAN}
  /\ output = <<>>
  /\ nodes = EmptyMap
  /\ backfillEnv = ""
  /\ recording = FALSE
  /\ Idle

\* what the query of startupPodReady may answer, in the orders it may answer it
QueryAnswers(nodeName) ==
  IF podIndexer # "nil"
  THEN Orderings(ByIndex(nodeName))
  ELSE Orderings(ListPods(nodeName, TRUE)) \cup Orderings(ListPodsAnyNode)

EvalStartupPodReady ==
  /\ output = <<>>
  /\ \E objs \in IF input.failed THEN {<<>>} ELSE QueryAnswers(input.nodeName) :
       LET r == startupPodReadyCall(input.nodeName, objs, input.failed) IN
       output' = <<[objs |-> objs, ready |-> r.ready, err |-> r.err]>>
  /\ UNCHANGED <<storeVars, procVars, runVars, envVars, backfillEnv, recording, held, stop,
                 sweeps, input, calls, issued, removals>>

NextReadiness == EvalStartupPodReady

SpecReadiness == InitReadiness /\ [][NextReadiness]_vars

\* The pod informer delivers a notification whose object (input) is any state of
\* the agent pod p1, while the store, and the index behind it, hold any other:
\* the object of a notification is the pod as it was when the event was queued.
AgentShapes(name, nodeName) ==
  {AgentPending(name, nodeName), AgentAnnotated(name, nodeName), AgentReady(name, nodeName)}

InitPayload ==
  /\ \E n \in MarkedShapes("n1") : nodes = [x \in {"n1"} |-> n]
  /\ \E o \in AgentShapes("p1", "n1") : pods = [x \in {"p1"} |-> o]
  /\ \/ podIndexer = "nil" /\ indexed = EmptyMap
     \/ /\ podIndexer = "set"
        /\ \E o \in AgentShapes("p1", "n1") : indexed = [x \in {"p1"} |-> o]
  /\ input \in AgentShapes("p1", "n1")
  /\ output = <<>>
  /\ backfillEnv = ""
  /\ recording = TRUE
  /\ Idle

NextPayload ==
  \/ HandlePodStart("podL", input)
  \/ HandlePodGet("podL")
  \/ HandleNode("podL")
  \/ RemoveGet("podL")
  \/ RemoveUpdateOk("podL")
  \/ \E object \in AgentShapes("p1", "n1") : PodSet("p1", object)
  \/ PodInformerSync("p1")

SpecPayload == InitPayload /\ [][NextPayload]_vars

\* The two paths of startupPodReady and of hasWorkloadPods asked about the same
\* node over the same pods, the index holding what the store holds.  selects:
\* whether the store evaluates the field selector of a List (the API server does;
\* client-go's fake clientset, the one store the fallback path ever runs against,
\* Run setting the index before anything else, evaluates the label selector only).
PathPods(name) ==
  PodPool(name)
    \cup {Workload(name, nodeName) : nodeName \in NodeNames}
    \cup {Pod(name, "kube-public", EmptyMap, EmptyMap, nodeName, <<>>, <<>>) :
            nodeName \in NodeNames}

InitPaths ==
  /\ \E present \in SUBSET EvalPods :
       pods \in [present -> UNION {PathPods(q) : q \in present}]
  /\ \A q \in DOMAIN pods : pods[q].Name = q
  /\ podIndexer = "set"
  /\ indexed = pods
  /\ input \in {[nodeName |-> n, selects |-> f] : n \in NodeNames, f \in BOOLEAN}
  /\ output = <<>>
  /\ nodes = EmptyMap
  /\ backfillEnv = ""
  /\ recording = FALSE
  /\ Idle

\* what Pods("").List answers startupPodReady (lines 144-147) and hasWorkloadPods
\* (lines 248-250)
ReadinessList(nodeName, selects) ==
  IF selects THEN ListPods(nodeName, TRUE) ELSE ListPodsAnyNode
WorkloadList(nodeName, selects) ==
  IF selects THEN ListPods(nodeName, FALSE) ELSE {pods[q] : q \in DOMAIN pods}

EvalPaths ==
  /\ output = <<>>
  /\ \E objs \in Orderings(ByIndex(input.nodeName)) :
     \E ritems \in Orderings(ReadinessList(input.nodeName, input.selects)) :
     \E witems \in Orderings(WorkloadList(input.nodeName, input.selects)) :
       output' = <<[indexedReady |-> indexedReady(objs),
                    listedReady |-> listedReady(ritems, input.nodeName),
                    indexedWorkload |-> workloadIn(objs),
                    listedWorkload |-> workloadIn(witems)]>>
  /\ UNCHANGED <<storeVars, procVars, runVars, envVars, backfillEnv, recording, held, stop,
                 sweeps, input, calls, issued, removals>>

NextPaths == EvalPaths

SpecPaths == InitPaths /\ [][NextPaths]_vars

\* MutateNode given one decoded AdmissionReview: a nil request, or a request of any
\* kind and operation for a node object with up to MaxPatchTaints taints
MaxPatchTaints == 2

ReviewedNodes ==
  {Node("n1", taints, EmptyMap, labels, 0) :
     taints \in SeqsUpTo({StartupTaint, WrongEffectTaint, NotReadyTaint}, MaxPatchTaints),
     labels \in {EmptyMap, [x \in {aksModeLabel} |-> "system"],
                 [x \in {aksModeLabel} |-> "user"]}}

Reviews ==
  {NilReview} \cup
  {[Request |-> [Nil |-> FALSE, Kind |-> kind, Operation |-> operation,
                 Object |-> object, Decodes |-> decodes]] :
     kind \in {"Node", "Pod"}, operation \in {"CREATE", "UPDATE", "DELETE"},
     object \in ReviewedNodes, decodes \in BOOLEAN}

InitMutate ==
  /\ input \in Reviews
  /\ output = <<>>
  /\ nodes = EmptyMap
  /\ pods = EmptyMap
  /\ indexed = EmptyMap
  /\ podIndexer = "nil"
  /\ backfillEnv = ""
  /\ recording = FALSE
  /\ Idle

EvalMutateNode ==
  /\ output = <<>>
  /\ output' = <<MutateNodeResponse(input)>>
  /\ UNCHANGED <<storeVars, procVars, runVars, envVars, backfillEnv, recording, held, stop,
                 sweeps, input, calls, issued, removals>>

NextMutate == EvalMutateNode

SpecMutate == InitMutate /\ [][NextMutate]_vars

\* The handler cacheResourceHandler builds, given a notification: the arguments of
\* the calls of fn it makes.  Kind "add": OnAdd(New); "update": OnUpdate(Old, New);
\* "delete": OnDelete(Old), for which no function is set.
\* mutant: an update passes the old object
cacheResourceHandler_OldObj(note) ==
  IF note.Kind = "add" THEN <<note.New>>
  ELSE IF note.Kind = "update" THEN <<note.Old>>
  ELSE <<>>

\* mutant: a delete notification calls fn with the deleted object
cacheResourceHandler_OnDelete(note) ==
  IF note.Kind = "add" THEN <<note.New>>
  ELSE IF note.Kind = "update" THEN <<note.New>>
  ELSE <<note.Old>>

cacheResourceHandler(note) ==
  IF note.Kind = "add" THEN <<note.New>>
  ELSE IF note.Kind = "update" THEN <<note.New>>
  ELSE <<>>

DispatchObjects == {"a", "b", "c"}

Notifications ==
  {[Kind |-> "add", Old |-> "", New |-> o] : o \in DispatchObjects}
  \cup {[Kind |-> "update", Old |-> o, New |-> n] : o \in DispatchObjects, n \in DispatchObjects}
  \cup {[Kind |-> "delete", Old |-> o, New |-> ""] : o \in DispatchObjects}

InitDispatch ==
  /\ nodes = EmptyMap
  /\ pods = EmptyMap
  /\ indexed = EmptyMap
  /\ podIndexer = "nil"
  /\ backfillEnv = ""
  /\ recording = FALSE
  /\ InitCommon

\* an informer delivers a notification; input keeps the notifications, output the
\* arguments fn was called with
Notify(note) ==
  /\ Len(input) < MaxNotes
  /\ input' = Append(input, note)
  /\ output' = output \o cacheResourceHandler(note)
  /\ UNCHANGED <<storeVars, procVars, runVars, envVars, backfillEnv, recording, held, stop,
                 sweeps, calls, issued, removals>>

NextDispatch == \E note \in Notifications : Notify(note)

SpecDispatch == InitDispatch /\ [][NextDispatch]_vars

----------------------------------------------------------------------------
(* Properties *)

Unmarked(name) == name \in DOMAIN nodes /\ ~HasStartupTaint(nodes[name])
CompletionOf(name) == IF name \in DOMAIN nodes THEN Completed(nodes[name]) ELSE ""
Returned(p) == pc[p] = "idle" /\ last[p].err # "none"

\* C1: when the handlers of a node notification and of a pod notification for the same
\* marked, ready node have both returned, whatever the interleaving of their Gets and
\* Updates, the store accepted exactly one Update of the node; neither handler ended
\* in an error; a handler whose Update was rejected met one conflict, fetched the
\* node again, found the marker gone and returned nil without a second Update; the
\* node has no marker and a non-empty completion annotation.  At no time has the
\* store accepted more than one Update.
C1_RaceOneWrite ==
  /\ removals["n1"] <= 1
  /\ (\A p \in Procs : Returned(p)) =>
       /\ removals["n1"] = 1
       /\ \A p \in Procs : last[p].err \in {"nil", "unmarked"}
       /\ \A p \in Procs : last[p].conflicts > 0 =>
            /\ last[p].conflicts = 1
            /\ last[p].updates = 1
            /\ last[p].gets = 2
            /\ ~last[p].wrote
            /\ last[p].err = "nil"
       /\ \E p \in Procs : last[p].wrote
       /\ Unmarked("n1")
       /\ CompletionOf("n1") # ""

\* both handlers returned, one of them after a rejected Update
C1_Witness ==
  /\ \A p \in Procs : Returned(p)
  /\ \E p, q \in Procs : last[p].conflicts = 1 /\ last[q].wrote

\* C2: after two removeStartupTaint calls on a marked node, the second started when
\* the first had returned, exactly one Update was issued for the node in total and
\* it was accepted; the second call issued none and returned nil; the completion
\* annotation is the value the first call wrote, and the marker is gone.
C2_TwoCallsOneUpdate ==
  \A n \in NodeNames :
    (/\ calls[n] = 2
     /\ Returned("nodeL")
     /\ last["nodeL"].node = n
     /\ HasStartupTaint(held[n])) =>
       /\ issued[n] = 1
       /\ removals[n] = 1
       /\ last["nodeL"].err = "nil"
       /\ last["nodeL"].updates = 0
       /\ last["nodeL"].before # ""
       /\ CompletionOf(n) = last["nodeL"].before
       /\ Unmarked(n)

\* the second call on a marked node has returned, the clock having moved between the
\* calls' Gets
C2_Witness ==
  /\ calls["n1"] = 2
  /\ Returned("nodeL")
  /\ last["nodeL"].node = "n1"
  /\ HasStartupTaint(held["n1"])
  /\ clock > ClockStart
  /\ CompletionOf("n1") = FormatInt(ClockStart)

\* C3: a removeStartupTaint attempt whose Get answers a node without the marker ends
\* the call with nil, issues no Update and leaves the stored node (its completion
\* annotation and every other field) as it was, whatever the object the caller passed.
C3_UnmarkedNoWrite ==
  [][\A p \in Procs :
       (/\ pc[p] = "rm_get"
        /\ pc'[p] # "rm_get"
        /\ arg[p].Name \in DOMAIN nodes
        /\ ~HasStartupTaint(nodes[arg[p].Name])) =>
          /\ pc'[p] = "idle"
          /\ last'[p].err = "nil"
          /\ last'[p].updates = stat[p].updates
          /\ ~last'[p].wrote
          /\ issued' = issued
          /\ nodes' = nodes]_vars

\* a call given a stale marked object returned nil after one Get and no Update, while
\* the other node, unmarked with an annotation of its own, was called too
C3_Witness ==
  /\ Returned("nodeL")
  /\ last["nodeL"].node = "n1"
  /\ HasStartupTaint(held["n1"])
  /\ last["nodeL"].err = "nil"
  /\ last["nodeL"].gets = 1
  /\ last["nodeL"].updates = 0
  /\ calls["n2"] > 0
  /\ CompletionOf("n2") = "12345"

\* C4: a removeStartupTaint call whose first Update was rejected with a conflict and
\* one of whose later Updates was accepted returns nil, having issued at least two
\* Updates; the stored node then has no marker and a non-empty completion annotation.
C4_ConflictThenSuccess ==
  (/\ Returned("nodeL")
   /\ last["nodeL"].conflicts >= 1
   /\ last["nodeL"].wrote) =>
     /\ last["nodeL"].err = "nil"
     /\ last["nodeL"].updates >= 2
     /\ last["nodeL"].updates = last["nodeL"].conflicts + 1
     /\ Unmarked("n1")
     /\ CompletionOf("n1") # ""

\* a call that met conflicts up to the last attempt and then wrote
C4_Witness ==
  /\ Returned("nodeL")
  /\ last["nodeL"].conflicts = DefaultBackoffSteps - 1
  /\ last["nodeL"].wrote
  /\ last["nodeL"].err = "nil"

\* C5: removeStartupTaint never issues more than DefaultBackoffSteps Updates or Gets
\* in one call; a call all of whose Updates were rejected with a conflict returns the
\* conflict error after exactly DefaultBackoffSteps attempts; and a rejected Update
\* leaves the stored node as it was.
C5_BoundedRetry ==
  /\ [](\A p \in Procs : /\ stat[p].updates <= DefaultBackoffSteps
                         /\ stat[p].gets <= DefaultBackoffSteps)
  /\ []((/\ Returned("nodeL")
         /\ last["nodeL"].updates >= 1
         /\ last["nodeL"].conflicts = last["nodeL"].updates) =>
           /\ last["nodeL"].err = "conflict"
           /\ last["nodeL"].updates = DefaultBackoffSteps
           /\ last["nodeL"].gets = DefaultBackoffSteps
           /\ ~last["nodeL"].wrote)
  /\ [][\A p \in Procs :
          (pc[p] = "rm_update" /\ pc'[p] # "rm_update" /\ ~VersionMatches(fetched[p]))
            => nodes' = nodes /\ removals' = removals]_vars

\* the first call gave up on conflicts; the node still carries the marker and no
\* completion annotation
C5_Witness ==
  /\ Returned("nodeL")
  /\ calls["n1"] = 1
  /\ last["nodeL"].err = "conflict"
  /\ HasStartupTaint(nodes["n1"])
  /\ CompletionOf("n1") = ""
  /\ removals["n1"] = 0

\* a labelled agent pod bound to the node that signals completion: by the annotation,
\* or by all containers ready together with the PodReady condition
CompleteAgent(o, nodeName) ==
  /\ Lookup(o.Labels, StartPodLabelKey) = StartPodLabelValue
  /\ o.NodeName = nodeName
  /\ \/ Lookup(o.Annotations, StartPodReadyAnnotation) = "true"
     \/ /\ \A i \in 1..Len(o.ContainerStatuses) : o.ContainerStatuses[i].Ready
        /\ \E i \in 1..Len(o.Conditions) : o.Conditions[i] = PodReadyTrue

\* C6: removeStartupTaint is entered from handleNode only when the pods handleNode's
\* readiness query saw for the node include a complete agent pod; every accepted
\* marker-removing Update is issued by an invocation in which startupPodReady answered
\* (true, nil); the marker leaves a node by such an Update only; and handleNode on a
\* marked node for which the query shows no complete agent pod (none at all, or only
\* incomplete ones) returns without a write, the stored node as it was.
C6_WriteOnlyWhenReady ==
  /\ [](\A p \in Procs : pc[p] \in {"rm_get", "rm_update"} => stat[p].ready)
  /\ [][\A p \in Procs :
          (pc[p] = "handleNode" /\ pc'[p] = "rm_get") =>
            \E o \in ReadinessSource(arg[p].Name) : CompleteAgent(o, arg[p].Name)]_vars
  /\ [][\A p \in Procs :
          (/\ pc[p] = "handleNode"
           /\ pc'[p] # "handleNode"
           /\ HasStartupTaint(arg[p])
           /\ ~\E o \in ReadinessSource(arg[p].Name) : CompleteAgent(o, arg[p].Name)) =>
             /\ pc'[p] = "idle"
             /\ nodes' = nodes
             /\ issued' = issued]_vars
  /\ [][\A n \in DOMAIN nodes :
          (HasStartupTaint(nodes[n]) /\ ~HasStartupTaint(nodes'[n])) =>
            /\ removals'[n] = removals[n] + 1
            /\ \E p \in Procs : /\ pc[p] = "rm_update"
                                /\ pc'[p] = "idle"
                                /\ stat[p].ready
                                /\ stat[p].node = n]_vars

\* the marker was removed while another invocation, started on the marked node, found
\* the agent pod not complete any more and is about to return
C6_Witness ==
  /\ removals["n1"] = 1
  /\ Unmarked("n1")
  /\ \E p \in Procs :
       /\ pc[p] = "handleNode"
       /\ HasStartupTaint(arg[p])
       /\ ReadinessSource("n1") # {}
       /\ ~\E o \in ReadinessSource("n1") : CompleteAgent(o, "n1")

\* the node's agent pod is complete in the store
AgentCompleteStored(nodeName) ==
  \E q \in DOMAIN pods : CompleteAgent(pods[q], nodeName)

\* C7: if from some time on the agent pod of the marked node n1 is complete, then,
\* with the informers delivering fairly and the other clients' writes and the store's
\* failures ceasing, from some time on n1 has no marker and a non-empty completion
\* annotation.
C7_EventuallyUnmarked ==
  <>[]AgentCompleteStored("n1") =>
    <>[](Unmarked("n1") /\ CompletionOf("n1") # "")

\* the marker is gone after a store call had failed and another client had written
C7_Witness ==
  /\ AgentCompleteStored("n1")
  /\ Unmarked("n1")
  /\ CompletionOf("n1") # ""
  /\ removals["n1"] = 1
  /\ faults = MaxFaults
  /\ envWrites = MaxEnvWrites

\* C8: with backfill disabled, a stored node without the marker has none after any
\* step (handler, remover, admission of another client's UPDATE); an accepted Update
\* of removeStartupTaint stores no more markers than the version it read carried; and
\* MutateNode answers no patch to a Node review whose operation is not CREATE.
C8_UnmarkedTerminal ==
  /\ [][\A n \in DOMAIN nodes :
          ~HasStartupTaint(nodes[n]) =>
            n \in DOMAIN nodes' /\ ~HasStartupTaint(nodes'[n])]_vars
  /\ [][\A n \in DOMAIN nodes :
          removals'[n] # removals[n] => MarkerCount(nodes'[n]) <= MarkerCount(nodes[n])]_vars
  /\ [](\A n \in DOMAIN nodes : \A operation \in {"UPDATE", "DELETE", "CONNECT"} :
          MutateNode(Review("Node", operation, nodes[n])) = NoPatch)

\* after the removal another client updated the unmarked node, while a handler given
\* a stale marked object is inside removeStartupTaint
C8_Witness ==
  /\ Unmarked("n1")
  /\ removals["n1"] = 1
  /\ envWrites > 0
  /\ nodes["n1"].ResourceVersion > 2
  /\ \E p \in Procs : pc[p] = "rm_get" /\ HasStartupTaint(arg[p])

\* C9: every stored node carries at most one taint equal to StartupTaint, with the
\* webhook admitting CREATEs and UPDATEs, the backfill sweep and removeStartupTaint
\* writing in any interleaving.
C9_AtMostOneMarker ==
  \A n \in DOMAIN nodes : MarkerCount(nodes[n]) <= 1

\* the sweep has put the marker on a node that had none, next to another taint
C9_Witness ==
  /\ runPc = "blocked"
  /\ "n1" \in DOMAIN held
  /\ ~HasStartupTaint(held["n1"])
  /\ "n1" \in DOMAIN nodes
  /\ MarkerCount(nodes["n1"]) = 1
  /\ Len(nodes["n1"].Taints) = 2

\* C10: a completion annotation, once set, is never removed; it keeps its value over
\* every step that leaves the node unmarked; the store accepts at most one
\* marker-removing Update per node, and that Update is what sets the annotation, to
\* the decimal time of the attempt.
C10_CompletionStable ==
  /\ [][\A n \in DOMAIN nodes :
          Completed(nodes[n]) # "" =>
            /\ n \in DOMAIN nodes'
            /\ Completed(nodes'[n]) # ""
            /\ (~HasStartupTaint(nodes[n]) /\ ~HasStartupTaint(nodes'[n])) =>
                 Completed(nodes'[n]) = Completed(nodes[n])]_vars
  /\ [][\A n \in DOMAIN nodes :
          removals'[n] # removals[n] =>
            /\ HasStartupTaint(nodes[n])
            /\ ~HasStartupTaint(nodes'[n])
            /\ Completed(nodes[n]) = ""
            /\ Completed(nodes'[n]) \in {FormatInt(t) : t \in ClockStart..clock}]_vars
  /\ [](\A n \in NodeNames : removals[n] <= 1)

\* the marker the sweep added was removed a second after the start, another client
\* having written to the node as well
C10_Witness ==
  /\ "n1" \in DOMAIN held
  /\ ~HasStartupTaint(held["n1"])
  /\ removals["n1"] = 1
  /\ Unmarked("n1")
  /\ CompletionOf("n1") = FormatInt(ClockStart + 1)
  /\ envWrites > 0

\* the sweep's Update of a node is accepted
SweepWrites(n) ==
  /\ runPc = "bf_update"
  /\ runPc' # "bf_update"
  /\ items[bfI].Name = n
  /\ nodes'[n] # nodes[n]

\* C11: whenever the store accepts an Update of the backfill sweep for a node, the
\* stored node carried no completion annotation just before; a node whose stored
\* completion annotation is non-empty is left as it is, unmarked, by every step of
\* every sweep, also when it was completed after the sweep listed it.
C11_SweepSparesCompleted ==
  /\ [][\A n \in DOMAIN nodes : SweepWrites(n) => Completed(nodes[n]) = ""]_vars
  /\ [][\A n \in DOMAIN nodes :
          (/\ Completed(nodes[n]) # ""
           /\ ~HasStartupTaint(nodes[n])
           /\ <<runPc, items, bfI>>' # <<runPc, items, bfI>>) =>
             nodes'[n] = nodes[n]]_vars

\* a later sweep is about to Update a node, from its list where the node had neither
\* marker nor annotation, that the remover completed since
C11_Witness ==
  /\ runPc = "bf_update"
  /\ sweeps = MaxSweeps
  /\ Completed(items[bfI]) = ""
  /\ Unmarked(items[bfI].Name)
  /\ CompletionOf(items[bfI].Name) # ""
  /\ removals[items[bfI].Name] = 1

\* the node hosts a pod outside kube-system and kube-public, in the store
HostsWorkload(n) ==
  \E q \in DOMAIN pods :
    /\ pods[q].NodeName = n
    /\ pods[q].Namespace \notin {"kube-system", "kube-public"}

\* C12: whenever the store accepts an Update of the backfill sweep that puts the
\* marker on a node, the node hosts no pod outside kube-system and kube-public at
\* that moment.
C12_SweepSparesWorkloadNodes ==
  [][\A n \in DOMAIN nodes :
       (SweepWrites(n) /\ ~HasStartupTaint(nodes[n]) /\ HasStartupTaint(nodes'[n])) =>
         ~HostsWorkload(n)]_vars

\* C13: when backfillTaint has returned, having met no store error, every node that
\* had no marker, no completion annotation and no pod outside kube-system and
\* kube-public has the taints it had followed by one StartupTaint, and every node
\* that had the marker has the taints it had.
C13_SweepMarksEligible ==
  (runPc = "blocked" /\ sweeps >= 1) =>
    \A n \in DOMAIN held :
      /\ (/\ ~HasStartupTaint(held[n])
          /\ Completed(held[n]) = ""
          /\ ~HostsWorkload(n)) =>
            /\ nodes[n].Taints = Append(held[n].Taints, StartupTaint)
            /\ MarkerCount(nodes[n]) = 1
      /\ HasStartupTaint(held[n]) => nodes[n].Taints = held[n].Taints

\* after a second sweep: n1 got the marker behind its two other taints, n2 kept its
\* marker and its other taint
C13_Witness ==
  /\ runPc = "blocked"
  /\ sweeps = 2
  /\ nodes["n1"].Taints = <<NotReadyTaint, WrongValueTaint, StartupTaint>>
  /\ held["n2"].Taints = <<StartupTaint, WrongValueTaint>>
  /\ nodes["n2"] = held["n2"]

\* C14: HasStartupTaint answers true exactly for the nodes one of whose taints is
\* the triple StartupTaint, wherever it stands and whatever the other taints are; a
\* taint with the marker's key and another value or effect does not count.
C14_PredicateExact ==
  output # <<>> =>
    /\ output[1] = (\E i \in 1..Len(input) : input[i] = StartupTaint)
    /\ (\A i \in 1..Len(input) : input[i] \in {WrongValueTaint, WrongEffectTaint, NotReadyTaint})
         => output[1] = FALSE

\* true for the marker standing last, behind two taints that share its key
C14_Witness ==
  /\ output = <<TRUE>>
  /\ input = <<WrongValueTaint, WrongEffectTaint, StartupTaint>>

\* startupPodReady has answered a query that did not fail
Answered == output # <<>> /\ ~input.failed

\* the pods of the store that carry the init label and are bound to the node
AgentsOn(nodeName) ==
  {o \in {pods[q] : q \in DOMAIN pods} :
     /\ Lookup(o.Labels, StartPodLabelKey) = StartPodLabelValue
     /\ o.NodeName = nodeName}

\* C15: if an agent pod of the node carries the ready annotation "true",
\* startupPodReady answers (true, nil), whatever the pod's container statuses and
\* PodReady condition are.
C15_AnnotationOverrides ==
  (/\ Answered
   /\ \E o \in AgentsOn(input.nodeName) :
        Lookup(o.Annotations, StartPodReadyAnnotation) = "true") =>
     output[1].ready /\ output[1].err = "nil"

\* ready on the strength of one agent pod annotated "true" whose only container is
\* not ready and whose PodReady condition is False
C15_Witness ==
  /\ Answered
  /\ output[1].ready
  /\ pods = [x \in {"p1"} |-> AgentAnnotated("p1", "n1")]

\* C16: when no agent pod of the node carries the ready annotation "true",
\* startupPodReady answers true exactly if some agent pod of the node has every
\* container status ready and a PodReady condition whose status is True; agent pods
\* with a container that is not ready, or without a PodReady=True condition (with or
\* without containers), do not make it answer true.
C16_ContainersAndCondition ==
  (/\ Answered
   /\ \A o \in AgentsOn(input.nodeName) :
        Lookup(o.Annotations, StartPodReadyAnnotation) # "true") =>
     /\ output[1].err = "nil"
     /\ output[1].ready =
          (\E o \in AgentsOn(input.nodeName) :
             /\ \A i \in 1..Len(o.ContainerStatuses) : o.ContainerStatuses[i].Ready
             /\ \E i \in 1..Len(o.Conditions) : o.Conditions[i] = PodReadyTrue)
     /\ (\A o \in AgentsOn(input.nodeName) :
           \/ \E i \in 1..Len(o.ContainerStatuses) : ~o.ContainerStatuses[i].Ready
           \/ PodReadyTrue \notin {o.Conditions[i] : i \in 1..Len(o.Conditions)})
          => ~output[1].ready

\* not ready: one agent pod has its container ready but no PodReady condition, the
\* other has neither containers nor conditions
C16_Witness ==
  /\ Answered
  /\ ~output[1].ready
  /\ DOMAIN pods = EvalPods
  /\ pods["p1"] = Pod("p1", "kube-system", InitLabels, EmptyMap, "n1",
                      <<[Ready |-> TRUE]>>, <<>>)
  /\ pods["p2"] = Pod("p2", "kube-system", InitLabels, EmptyMap, "n1", <<>>, <<>>)

\* C17: startupPodReady answers true exactly if at least one agent pod bound to the
\* node is complete, in whatever order the query returns the pods.
C17_AnyCompleteAnyOrder ==
  Answered =>
    /\ output[1].err = "nil"
    /\ output[1].ready = (\E q \in DOMAIN pods : CompleteAgent(pods[q], input.nodeName))

\* ready although the agent pod the query returned first is not complete
C17_Witness ==
  /\ Answered
  /\ output[1].ready
  /\ Len(output[1].objs) = 2
  /\ output[1].objs[1] = AgentPending("p2", "n1")
  /\ output[1].objs[2] = AgentReady("p1", "n1")

\* C18: when no pod carries the init label and is bound to the node, startupPodReady
\* answers (false, nil), whatever complete pods there are on other nodes or, without
\* the label, on the node.
C18_OnlyLabelledOnNode ==
  (Answered /\ AgentsOn(input.nodeName) = {}) =>
    ~output[1].ready /\ output[1].err = "nil"

\* not ready with a complete agent pod on the other node, which the List returned,
\* and a pod annotated "true" without the label on the node
C18_Witness ==
  /\ Answered
  /\ ~output[1].ready
  /\ DOMAIN pods = EvalPods
  /\ output[1].objs = <<AgentReady("p1", "n2")>>
  /\ pods["p2"] = Pod("p2", "kube-system", EmptyMap, ReadyAnnotations, "n1",
                      <<[Ready |-> TRUE]>>, <<PodReadyTrue>>)

\* C19: when its query fails, startupPodReady answers ready=false with an error.
C19_QueryFailureIsError ==
  (output # <<>> /\ input.failed) =>
    ~output[1].ready /\ output[1].err # "nil"

\* the add and update notifications among the first i delivered
Forwarding(i) == {j \in 1..i : input[j].Kind \in {"add", "update"}}

\* C20: the handler built by cacheResourceHandler has called fn once for each add
\* and each update notification delivered, in their order, with the added object
\* and with the update's new object; no call was made with an update's old object
\* in its place, and none for any other notification.
C20_DispatchNewObjectOnce ==
  /\ Len(output) = Cardinality(Forwarding(Len(input)))
  /\ \A j \in Forwarding(Len(input)) :
       /\ output[Cardinality(Forwarding(j))] = input[j].New
       /\ (input[j].Kind = "update" /\ input[j].Old # input[j].New) =>
            output[Cardinality(Forwarding(j))] # input[j].Old

\* add a, update a to b, delete c, update b to c: fn was called with a, b, c
C20_Witness ==
  /\ Len(input) = 4
  /\ input[1] = [Kind |-> "add", Old |-> "", New |-> "a"]
  /\ input[2] = [Kind |-> "update", Old |-> "a", New |-> "b"]
  /\ input[3] = [Kind |-> "delete", Old |-> "c", New |-> ""]
  /\ input[4] = [Kind |-> "update", Old |-> "b", New |-> "c"]
  /\ output = <<"a", "b", "c">>

\* the added and new objects of the notifications that are no deletion, in order
RECURSIVE NewObjects(_)
NewObjects(notes) ==
  IF notes = <<>> THEN <<>>
  ELSE (IF Head(notes).Kind = "delete" THEN <<>> ELSE <<Head(notes).New>>)
       \o NewObjects(Tail(notes))

\* C21: whatever add, update and delete notifications were delivered, the objects fn
\* was called with are, in order, the added and new objects of those that are no
\* deletion; and the delivery of a delete notification makes no call of fn (so a
\* deleted agent pod starts no reconciliation).
C21_DeleteNeverDispatched ==
  /\ [](output = NewObjects(input))
  /\ [][(Len(input') = Len(input) + 1 /\ input'[Len(input')].Kind = "delete")
          => output' = output]_vars

\* add a, then a and b deleted: fn was called once, with a
C21_Witness ==
  /\ Len(input) = 3
  /\ input[1] = [Kind |-> "add", Old |-> "", New |-> "a"]
  /\ input[2] = [Kind |-> "delete", Old |-> "a", New |-> ""]
  /\ input[3] = [Kind |-> "delete", Old |-> "b", New |-> ""]
  /\ output = <<"a">>

\* a request MutateNode is to patch: a CREATE of a Node whose object has no taint
\* equal to the marker triple and is not labelled as a system-pool node
ToBePatched(review) ==
  LET r == review.Request IN
  /\ ~r.Nil
  /\ r.Kind = "Node"
  /\ r.Operation = "CREATE"
  /\ ~\E i \in 1..Len(r.Object.Taints) : r.Object.Taints[i] = StartupTaint
  /\ ~(aksModeLabel \in DOMAIN r.Object.Labels /\ r.Object.Labels[aksModeLabel] = "system")

\* C22: MutateNode always answers Allowed.  To a well-formed request (nil, or with a
\* decodable object) it answers with a patch exactly if the request is a CREATE of
\* kind Node whose object lacks the marker and is not labelled mode=system: then the
\* patch is one JSON-patch add carrying the one taint {initializing, wait,
\* NoSchedule}, and the patched object has the object's taints followed by that
\* taint, so exactly one marker.  To every other well-formed request it answers with
\* no patch and no patch type.
C22_MutatePatchesExactly ==
  output # <<>> /\ (input.Request.Nil \/ input.Request.Decodes) =>
    LET resp == output[1]
        obj == input.Request.Object
    IN /\ resp.Allowed
       /\ IF ToBePatched(input)
          THEN /\ Len(resp.Patch) = 1
               /\ resp.Patch[1].Op = "add"
               /\ resp.Patch[1].Value =
                    <<[Key |-> "startup.k8s.io/initializing", Value |-> "wait",
                       Effect |-> "NoSchedule"]>>
               /\ resp.PatchType = "JSONPatch"
               /\ ApplyPatch(obj, resp.Patch).Taints = Append(obj.Taints, StartupTaint)
               /\ MarkerCount(ApplyPatch(obj, resp.Patch)) = 1
          ELSE /\ resp.Patch = NoPatch
               /\ resp.PatchType = "nil"

\* a CREATE of a user-pool node carrying two other taints, one with the marker's key
\* and value but another effect, was answered with a patch
C22_Witness ==
  /\ output # <<>>
  /\ input.Request.Kind = "Node"
  /\ input.Request.Operation = "CREATE"
  /\ input.Request.Decodes
  /\ input.Request.Object.Taints = <<NotReadyTaint, WrongEffectTaint>>
  /\ Lookup(input.Request.Object.Labels, aksModeLabel) = "user"
  /\ output[1].Patch # NoPatch

\* C23: Run has returned only if the stop channel is closed: no failed store call,
\* of a handler (node Get, Update, a retry that ran out of steps) or of the sweep
\* (List, Update), ends it.  And once the channel is closed Run does return.
C23_RunEndsOnlyOnStop ==
  /\ [](runPc = "returned" => stop)
  /\ [][(faults' # faults /\ runPc # "returned") => runPc' # "returned"]_vars
  /\ (stop ~> runPc = "returned")

\* Run has returned after a store call failed
C23_Witness ==
  /\ runPc = "returned"
  /\ stop
  /\ faults = MaxFaults

\* C24: whenever the store accepts a marker-removing Update of a node, an agent pod
\* bound to that node is complete in the store at that moment.
C24_CompleteAtTheWrite ==
  [][\A n \in DOMAIN nodes :
       removals'[n] # removals[n] => AgentCompleteStored(n)]_vars

\* goroutine p's Get or Update inside removeStartupTaint fails in this step with an
\* error that is no conflict
RemoverCallFails(p) ==
  /\ pc[p] \in {"rm_get", "rm_update"}
  /\ faults' = faults + 1
  /\ <<pc[p], stat[p]>>' # <<pc[p], stat[p]>>

\* C25: when a Get or an Update inside removeStartupTaint fails with an error that
\* is no conflict while backoff steps are left, removeStartupTaint runs its function
\* again, as it does after a conflict, instead of returning the error.
C25_TransientErrorsRetried ==
  [][\A p \in Procs :
       (RemoverCallFails(p) /\ RetryAgain(steps[p])) =>
         /\ pc'[p] = "rm_get"
         /\ steps'[p] = steps[p] - 1]_vars

\* C26: handlePod, having been given a labelled pod bound to a node, Gets that node.
\* If the node as stored at the Get carries the marker, handleNode is entered with
\* that fetched version (there the readiness query and the removal follow);
\* otherwise handlePod returns at once: no readiness query is made, the store's
\* nodes are as they were and no Update was issued.
C26_PodEventChecksMarkerFirst ==
  [][\A p \in Procs :
       (pc[p] = "hp_get" /\ pc'[p] # "hp_get") =>
         IF arg[p].Name \in DOMAIN nodes /\ HasStartupTaint(nodes[arg[p].Name])
         THEN /\ pc'[p] = "handleNode"
              /\ arg'[p] = nodes[arg[p].Name]
              /\ nodes' = nodes
         ELSE /\ pc'[p] = "idle"
              /\ nodes' = nodes
              /\ issued' = issued]_vars

\* a notification for the complete agent pod of n1 is being handled after n1's
\* marker was removed
C26_Witness ==
  /\ pc["podL"] = "hp_get"
  /\ arg["podL"].Name = "n1"
  /\ Unmarked("n1")
  /\ AgentCompleteStored("n1")
  /\ removals["n1"] = 1

\* C27: handlePod given an object that is no pod, a pod without the init label
\* (whatever its annotations), a pod bound to no node, or a pod whose node cannot
\* be fetched, and handleNode given an object that is no node, return without a
\* node write: the store's nodes stay as they were, no Update is issued,
\* removeStartupTaint is not entered, and handlePod does not get as far as the
\* readiness query.
C27_IrrelevantEventsIgnored ==
  /\ nodes = held
  /\ \A n \in NodeNames : issued[n] = 0 /\ removals[n] = 0
  /\ \A p \in Procs : pc[p] \notin {"rm_get", "rm_update"}
  /\ pc["podL"] # "handleNode"
  /\ \A p \in Procs :
       last[p].err \in {"none", "not_a_pod", "unlabelled", "unbound", "get_error",
                        "not_a_node"}

\* handlePod has returned from a pod that has the ready annotation but not the
\* label, and handleNode from an object that is no node; the marked node is as it was
C27_Witness ==
  /\ Returned("podL")
  /\ last["podL"].err = "unlabelled"
  /\ Returned("nodeL")
  /\ last["nodeL"].err = "not_a_node"
  /\ HasStartupTaint(nodes["n1"])
  /\ AgentCompleteStored("n1")

\* C28: when startupPodReady's query fails for the marked node handleNode was
\* given, handleNode returns in that step: removeStartupTaint is not entered, no Get
\* or Update is issued, and the stored node keeps its taints and annotations.  The
\* outcome is the error, which is not the outcome of a query that succeeded and
\* showed no complete agent pod; an invocation that ended so has written nothing.
C28_QueryErrorNoWrite ==
  /\ [][\A p \in Procs :
          (pc[p] = "handleNode" /\ faults' = faults + 1) =>
            /\ pc'[p] = "idle"
            /\ nodes' = nodes
            /\ issued' = issued
            /\ removals' = removals
            /\ last'[p].err = "query_error"
            /\ last'[p].err # "not_ready"]_vars
  /\ [](\A p \in Procs :
          last[p].err = "query_error" =>
            last[p].gets = 0 /\ last[p].updates = 0 /\ ~last[p].wrote)

\* the query failed while the agent pod was complete: the handler has returned with
\* the error and the node still carries the marker and no completion annotation
C28_Witness ==
  /\ Returned("nodeL")
  /\ last["nodeL"].err = "query_error"
  /\ AgentCompleteStored("n1")
  /\ HasStartupTaint(nodes["n1"])
  /\ CompletionOf("n1") = ""
  /\ removals["n1"] = 0

\* Run is inside backfillTaint
Sweeping == runPc \in {"bf_list", "bf_node", "bf_update"}

\* C29: in a Run, backfillTaint is entered at most once, from the return of
\* WaitForCacheSync only; it runs only if STARTUP_BACKFILL is "1"; and while it runs
\* the pod informer's cache holds the store's pods, in every execution, one in
\* which the stop channel is closed before the caches have synchronized included.
C29_SweepOnceAfterSync ==
  /\ [](Sweeping => backfillEnv = "1")
  /\ [][(~Sweeping /\ Sweeping') => runPc = "syncing"]_vars
  /\ [][runPc' = "syncing" => runPc \in {"new", "syncing"}]_vars
  /\ [](Sweeping => indexed = pods)

\* C30: the answers of startupPodReady and of hasWorkloadPods are those the
\* store's pods give, whether or not the pod index is built and populated:
\* handleNode on a marked node enters removeStartupTaint exactly if an agent pod
\* bound to the node is complete in the store, and the sweep passes over an unmarked
\* node without completion annotation exactly if the store holds a pod bound to it
\* outside kube-system and kube-public.
C30_AnswersMatchTheStore ==
  /\ [][\A p \in Procs :
          (/\ pc[p] = "handleNode"
           /\ pc'[p] # "handleNode"
           /\ IsNode(arg[p])
           /\ HasStartupTaint(arg[p])) =>
            (pc'[p] = "rm_get" <=> AgentCompleteStored(arg[p].Name))]_vars
  /\ [][(/\ runPc = "bf_node"
         /\ (runPc' # runPc \/ bfI' # bfI)
         /\ ~HasStartupTaint(items[bfI])
         /\ Completed(items[bfI]) = "") =>
           (runPc' = "bf_update" <=> ~HostsWorkload(items[bfI].Name))]_vars

\* a node the sweep is to mark: no marker, no completion annotation, no pod bound
\* to it outside kube-system and kube-public
Eligible(n) ==
  /\ ~HasStartupTaint(n)
  /\ Completed(n) = ""
  /\ ~HostsWorkload(n.Name)

\* C31: a failed Update of the sweep changes no node and does not end the sweep:
\* the next listed node, if there is one, is evaluated next, with the list as it
\* was.  A failed List ends the sweep with no node listed and no write.  When a
\* first sweep that ran on its own is over, either its List failed and the store
\* is as it was, or every node that was eligible carries the marker, but for at
\* most one node per failed Update.
C31_SweepFailuresPerNode ==
  /\ [][(runPc = "bf_update" /\ faults' = faults + 1) =>
          /\ nodes' = nodes
          /\ IF bfI < Len(items)
             THEN runPc' = "bf_node" /\ bfI' = bfI + 1 /\ items' = items
             ELSE runPc' = "blocked"]_vars
  /\ [][(runPc = "bf_list" /\ faults' = faults + 1) =>
          /\ nodes' = nodes
          /\ items' = <<>>
          /\ runPc' = "blocked"]_vars
  /\ []((sweeps = 1 /\ runPc = "blocked") =>
          \/ faults > 0 /\ nodes = held
          \/ Cardinality({n \in DOMAIN held :
                 Eligible(held[n]) /\ ~HasStartupTaint(nodes[n])}) <= faults)

\* the Update for the first listed node failed, the node is as it was, and the sweep
\* is at the second node, which it will mark
C31_Witness ==
  /\ sweeps = 1
  /\ runPc = "bf_node"
  /\ bfI = 2
  /\ faults = 1
  /\ nodes = held
  /\ Eligible(nodes[items[1].Name])
  /\ Eligible(items[2])

\* C32: with the webhook, the remover and the sweep (and clients that leave the
\* marker and the completion annotation alone) writing the store, no stored node
\* carries both the marker and a non-empty completion annotation; the accepted
\* Update of the remover is the one write in which the marker goes and the
\* annotation comes.
C32_MarkerExcludesCompletion ==
  /\ [](\A n \in DOMAIN nodes :
          ~(HasStartupTaint(nodes[n]) /\ Completed(nodes[n]) # ""))
  /\ [][\A n \in DOMAIN nodes :
          removals'[n] # removals[n] =>
            /\ HasStartupTaint(nodes[n])
            /\ ~HasStartupTaint(nodes'[n])
            /\ Completed(nodes'[n]) # ""]_vars

\* the sweep is at a node whose marker the remover took off before the List
C32_Witness ==
  /\ runPc = "bf_node"
  /\ items[bfI].Name = "n1"
  /\ Completed(items[bfI]) # ""
  /\ removals["n1"] = 1
  /\ Unmarked("n1")

\* the pods startupPodReady's query is answered from, of whatever node
QueriedPods ==
  IF podIndexer # "nil" THEN {indexed[q] : q \in DOMAIN indexed}
  ELSE {pods[q] : q \in DOMAIN pods}

\* C33: an invocation for node A (handleNode given A, or handlePod given a pod
\* bound to A) Gets and Updates A only: the node it fetched and the node it writes
\* are the one it was given, a stored node changes, and an Update for it is
\* issued, only in a step of an invocation for that node; and whether the
\* invocation goes on to the removal depends on the agent pods bound to A alone.
C33_NodesIndependent ==
  /\ [](\A p \in Procs :
          /\ pc[p] \in {"rm_get", "rm_update"} => stat[p].node = arg[p].Name
          /\ pc[p] = "rm_update" => fetched[p].Name = arg[p].Name)
  /\ [][\A b \in DOMAIN nodes :
          (nodes'[b] # nodes[b] \/ issued'[b] # issued[b]) =>
            \E p \in Procs : pc[p] = "rm_update" /\ arg[p].Name = b]_vars
  /\ [][\A p \in Procs :
          (pc[p] = "hp_get" /\ pc'[p] = "handleNode") => arg'[p].Name = arg[p].Name]_vars
  /\ [][\A p \in Procs :
          (/\ pc[p] = "handleNode"
           /\ pc'[p] # "handleNode"
           /\ HasStartupTaint(arg[p])) =>
            (pc'[p] = "rm_get" <=>
               \E o \in QueriedPods : CompleteAgent(o, arg[p].Name))]_vars

\* n1's marker was removed while n2, whose agent pod is not complete, is as it was
C33_Witness ==
  /\ removals["n1"] = 1
  /\ Unmarked("n1")
  /\ HasStartupTaint(nodes["n2"])
  /\ nodes["n2"] = held["n2"]
  /\ issued["n2"] = 0
  /\ ~AgentCompleteStored("n2")
  /\ \E p \in Procs : pc[p] = "handleNode" /\ arg[p].Name = "n2"

\* the taints of a node that are not the marker, in their order
OtherTaints(node) == SelectSeq(node.Taints, LAMBDA t : ~IsStartupTaint(t))

\* C34: the node an accepted remover Update stores is the node that was stored
\* just before it (the version Get answered, or the Update would have been
\* rejected) without its marker taints and with the completion annotation set:
\* the other taints in their order, the other annotations, the labels and the
\* name are the stored ones, not those of the node the caller passed.
C34_WriteIsStoredMinusMarker ==
  [][\A n \in DOMAIN nodes :
       removals'[n] # removals[n] =>
         /\ nodes'[n].Name = nodes[n].Name
         /\ nodes'[n].Taints = OtherTaints(nodes[n])
         /\ nodes'[n].Labels = nodes[n].Labels
         /\ DOMAIN nodes'[n].Annotations =
              DOMAIN nodes[n].Annotations \cup {NodeStartupCompletedAnnotation}
         /\ \A k \in DOMAIN nodes[n].Annotations \ {NodeStartupCompletedAnnotation} :
              nodes'[n].Annotations[k] = nodes[n].Annotations[k]
         /\ Completed(nodes'[n]) # ""]_vars

\* the remover's write was accepted after a rejected one, and the taint the other
\* client set in between, which the node passed does not carry, is on the node
C34_Witness ==
  /\ pc["nodeL"] = "idle"
  /\ last["nodeL"].wrote
  /\ last["nodeL"].conflicts = 1
  /\ envWrites = 1
  /\ removals["n1"] = 1
  /\ nodes["n1"].Taints = <<NotReadyTaint, WrongValueTaint>>
  /\ held["n1"].Taints = <<StartupTaint, WrongValueTaint>>
  /\ nodes["n1"].Annotations["note"] = "a"

\* C35: every accepted Update of removeStartupTaint leaves the stored node
\* without any taint equal to the marker, however many the fetched node carried.
C35_OneWriteRemovesEveryMarker ==
  /\ [][\A n \in DOMAIN nodes :
          removals'[n] # removals[n] =>
            /\ MarkerCount(nodes[n]) >= 1
            /\ MarkerCount(nodes'[n]) = 0
            /\ ~HasStartupTaint(nodes'[n])
            /\ Len(nodes'[n].Taints) = Len(nodes[n].Taints) - MarkerCount(nodes[n])]_vars
  /\ [](\A p \in Procs : (pc[p] = "idle" /\ last[p].wrote) => last[p].updates >= 1)

\* one call, one Get, one Update on a node that carried three markers
C35_Witness ==
  /\ MarkerCount(held["n1"]) = 3
  /\ pc["nodeL"] = "idle"
  /\ last["nodeL"].wrote
  /\ last["nodeL"].gets = 1
  /\ last["nodeL"].updates = 1
  /\ issued["n1"] = 1
  /\ nodes["n1"].Taints = <<WrongValueTaint>>

\* C36: asked about the same node over the same pods, the indexed path and the
\* List path of startupPodReady answer the same ready value, and the indexed path
\* and the List path of hasWorkloadPods answer the same value.
C36_PathsAgree ==
  output # <<>> =>
    /\ output[1].indexedReady = output[1].listedReady
    /\ output[1].indexedWorkload = output[1].listedWorkload

\* whether the pod a notification carries looks complete
LooksComplete(payload) ==
  annotatedReady(payload) \/ (allReady(payload) /\ readyCond(payload))

\* C37: handlePod, having fetched the marked node of the pod it was notified of,
\* goes on to the removal exactly when the index (or, without index, the store)
\* holds a complete agent pod of that node at the moment it asks, whatever the
\* pod carried by the notification looks like; and a marker is taken off only
\* by an invocation that found one there.
C37_DecidedFromTheStore ==
  /\ [][(/\ pc["podL"] = "handleNode"
         /\ pc'["podL"] = "rm_get") =>
           \E o \in QueriedPods : CompleteAgent(o, arg["podL"].Name)]_vars
  /\ [][(/\ pc["podL"] = "handleNode"
         /\ pc'["podL"] = "idle"
         /\ HasStartupTaint(arg["podL"])) =>
           /\ ~\E o \in QueriedPods : CompleteAgent(o, arg["podL"].Name)
           /\ last'["podL"].err = "not_ready"]_vars
  /\ [][removals' # removals => stat["podL"].ready]_vars

\* the notification's pod looks complete, the pod queried is not: the handler
\* returned without the removal and the marker is on
C37_Witness ==
  /\ LooksComplete(input)
  /\ ~\E o \in QueriedPods : CompleteAgent(o, "n1")
  /\ pc["podL"] = "idle"
  /\ last["podL"].err = "not_ready"
  /\ HasStartupTaint(nodes["n1"])
  /\ removals["n1"] = 0

\* C38: when the pod List of hasWorkloadPods fails for a listed node, the sweep
\* passes over the node: it appends no marker to the item, issues no Update for
\* it and goes on with the next item; after one sweep in which a List failed, a
\* node that had neither marker nor completion is as it was.
C38_SweepSkipsOnListFailure ==
  /\ [][(runPc = "bf_node" /\ faults' = faults + 1) =>
          /\ nodes' = nodes
          /\ runPc' # "bf_update"
          /\ IF bfI < Len(items)
             THEN runPc' = "bf_node" /\ bfI' = bfI + 1 /\ items' = items
             ELSE runPc' = "blocked"]_vars
  /\ []((sweeps = 1 /\ runPc = "blocked" /\ faults = 1) =>
          \E n \in DOMAIN nodes :
            /\ ~HasStartupTaint(held[n])
            /\ Completed(held[n]) = ""
            /\ nodes[n] = held[n])

\* the List failed for the first item, an unmarked node without pods, and the
\* sweep is at the second with nothing written
C38_Witness ==
  /\ podIndexer = "nil"
  /\ sweeps = 1
  /\ runPc = "bf_node"
  /\ bfI = 2
  /\ faults = 1
  /\ Eligible(items[1])
  /\ pods = EmptyMap
  /\ nodes = held

\* C39: within a sweep every listed node is evaluated once and gets at most one
\* Update: the object sent is the listed item with the marker appended, whatever
\* the store holds by then; the step that follows the Update goes on to the next
\* item or ends the sweep; an Update at the stored version stores the item, an
\* Update of an item whose node was written since the List changes no node.
C39_OneUpdateFromTheSnapshot ==
  /\ [](runPc \in {"bf_node", "bf_update"} =>
          \A i, j \in 1..Len(items) : items[i].Name = items[j].Name => i = j)
  /\ [][(runPc = "bf_node" /\ runPc' = "bf_update") =>
          /\ bfI' = bfI
          /\ items' = [items EXCEPT ![bfI].Taints = Append(@, StartupTaint)]
          /\ nodes' = nodes]_vars
  /\ [][(runPc = "bf_update" /\ <<runPc, bfI, items>>' # <<runPc, bfI, items>>) =>
          /\ IF bfI < Len(items)
             THEN runPc' = "bf_node" /\ bfI' = bfI + 1 /\ items' = items
             ELSE runPc' = "blocked"
          /\ \A n \in DOMAIN nodes :
               IF n = items[bfI].Name /\ VersionMatches(items[bfI])
               THEN /\ nodes'[n].Taints = items[bfI].Taints
                    /\ nodes'[n].Annotations = items[bfI].Annotations
                    /\ nodes'[n].Labels = items[bfI].Labels
               ELSE nodes'[n] = nodes[n]]_vars

\* the first listed node, which the sweep was to mark, was written by the other
\* client after the List: it carries that client's taint and no marker, and the
\* sweep is at the second item
C39_Witness ==
  /\ sweeps = 1
  /\ runPc = "bf_node"
  /\ bfI = 2
  /\ envWrites = 1
  /\ Eligible(held[items[1].Name])
  /\ nodes[items[1].Name].Taints = Toggled(held[items[1].Name].Taints)
  /\ nodes[items[2].Name] = held[items[2].Name]

====
